---- MODULE Spec2Model ----
(***************************************************************************)
(* A model of the scraper backend (src/backend): the crawling engine, the  *)
(* project/collaborator access rules, the route guards, the snippet review *)
(* operation, the export lifecycle and the audit side channel.             *)
(*                                                                         *)
(* The datastore is one SQLAlchemy session per request.  A session is      *)
(* modelled by the value committed to the store and the value pending in   *)
(* the session (Session, SessWrite, SessCommit, SessRollback).             *)
(***************************************************************************)
EXTENDS Integers, Sequences, FiniteSets, TLC

\* ------------------------------------------------------------------ bounds
MaxDepth == 1
MaxBudget == 2
MaxRequests == 3
MaxCollab == 2
MaxSnippets == 1
MaxClock == 2
MaxExports == 1
MaxAudit == 1
MaxUsers == 5
MaxResults == 3
MaxPageRows == 2
MaxSiteDepth == 2
MaxFetches == 3
MaxMatches == 1
MaxExtracts == 2

\* ---------------------------------------------------------------- universe
None == "None"

\* URLs that can appear in an anchor.  u0 is the seed (website.url); u0..u2
\* are pages of the website's own domain, "x" is a page of another domain,
\* "f" is a same-domain .pdf file and "m" is a mailto: link.
PageUrls == {"u0", "u1", "u2"}
Targets == PageUrls \cup {"x", "f", "m"}
SeedUrl == "u0"

\* The documents the web can answer with.  A document is named and has a set
\* of anchors and a (possibly empty) visible text.
HtmlDocs == {"d0", "d1", "d2", "d3", "d4"}
Anchors(html) ==
    CASE html = "d0" -> {}
      [] html = "d1" -> {"u1"}
      [] html = "d2" -> {"u1", "u2", "f"}
      [] html = "d3" -> {"u0", "u2", "m"}
      [] html = "d4" -> {"u2", "x"}
      [] OTHER -> {}
ExtractedText(html) == IF html = "d0" THEN "" ELSE "text"

\* the threads that may call into one ScrapingService instance
Threads == {"t1", "t2"}

WebsiteIds == {1}
RequestedWebsiteIds == {1, 2}
Requests == {"r1", "r2"}
CallerId == 1

VARIABLES
    websites,   \* Website rows: id -> record
    pages,      \* Page rows in insertion order (id = index)
    aiRuns,     \* number of page analyses run by the AI service
    aiAvailable,\* ai_service.is_available()
    req,        \* per HTTP request: the position and locals of the handler
    served,     \* number of scraping requests accepted so far
    audit,      \* AuditLog rows in insertion order
    users,      \* User rows: id -> record
    projects,   \* Project rows: id -> record
    collaborators, \* project_collaborators rows in insertion order
    resp,       \* the response to the latest request of the access model
    snippets,   \* Snippet rows by id
    clock,      \* datetime.utcnow(), in ticks longer than an export's lifetime
    exports,    \* Export rows by id
    files,      \* the paths that exist on disk
    job,        \* the create_export call in progress
    search,     \* the latest comprehensive_search call and what it returned
    fts,        \* the pages table of a provisioned database and its pages_fts index
    confidence, \* the latest _calculate_confidence_score call and its score
    browser,    \* one ScrapingService instance: its driver, its lock, its callers
    extraction  \* the rules, the pages' projects and the snippets extracted

crawlVars == <<websites, pages, aiRuns, aiAvailable, req, served>>
accessVars == <<users, projects, collaborators, resp>>
reviewVars == <<snippets, clock>>
exportVars == <<exports, files, job>>
serviceVars == <<search, fts, confidence, browser, extraction>>
nonCrawlVars == <<accessVars, reviewVars, exportVars, serviceVars>>
nonAccessVars == <<crawlVars, reviewVars, exportVars, serviceVars>>

\* ------------------------------------------------------------ the session
Session(c) == [committed |-> c, pending |-> c]
SessWrite(s, v) == [s EXCEPT !.pending = v]
SessCommit(s) == [s EXCEPT !.committed = s.pending]
SessRollback(s) == [s EXCEPT !.pending = s.committed]

\* ------------------------------------------------ crawling: pure helpers
\* hashlib.sha256(html).hexdigest(): a digest that tells documents apart
sha256(html) == [sha256 |-> html]

Scheme(u) == IF u = "m" THEN "mailto" ELSE "https"
Netloc(u) == CASE u = "x" -> "other.example" [] u = "m" -> "" [] OTHER -> "site.example"
IsFile(u) == u = "f"

\* the links of a document that a crawl may follow
extract_links(html, base_url, follow_external) ==
    { u \in Anchors(html) :
        /\ Scheme(u) \in {"http", "https"}
        /\ Netloc(u) # ""
        /\ (follow_external \/ Netloc(u) = Netloc(base_url))
        /\ ~IsFile(u) }

\* all orders in which a set can be listed (list(set(links)))
Orders(S) ==
    { q \in [1..Cardinality(S) -> S] : \A i, j \in 1..Cardinality(S) : i # j => q[i] # q[j] }

RECURSIVE SelectSeqBy(_, _)
\* the entries of new_urls, in order, that are not yet in crawled_urls
SelectSeqBy(q, crawled) ==
    IF q = <<>> THEN <<>>
    ELSE IF Head(q) \in crawled THEN SelectSeqBy(Tail(q), crawled)
         ELSE <<Head(q)>> \o SelectSeqBy(Tail(q), crawled)

\* a duplicate check that never finds a stored row
existing_page_none(rows, wid, url, h) == 0

\* the duplicate check with the digest left out of the filter
existing_page_any_digest(rows, wid, url, h) ==
    LET hits == { i \in 1..Len(rows) : rows[i].website_id = wid /\ rows[i].url = url }
    IN IF hits = {} THEN 0 ELSE CHOOSE i \in hits : \A j \in hits : i <= j

\* Page.query.filter_by(website_id, url, hash_content).first()
existing_page(rows, wid, url, h) ==
    LET hits == { i \in 1..Len(rows) :
                    /\ rows[i].website_id = wid
                    /\ rows[i].url = url
                    /\ rows[i].hash_content = h }
    IN IF hits = {} THEN 0 ELSE CHOOSE i \in hits : \A j \in hits : i <= j

\* Page.query.filter_by(website_id=website_id).count()
page_count(rows, wid) == Cardinality({ i \in 1..Len(rows) : rows[i].website_id = wid })

\* Page.to_dict(): the row as the dictionary handed back to callers
Page_to_dict(rows, id) == [page |-> id, raw_html |-> rows[id].raw_html]

ZeroStats == [pages_crawled |-> 0, pages_failed |-> 0, errors |-> <<>>]
NoResult == [success |-> FALSE, message |-> None, page |-> 0, raw_html |-> None]
IdleReq ==
    [pc |-> "idle", kind |-> None, website_id |-> 0, max_pages |-> 0,
     url |-> None, depth |-> 0, html |-> None, page_id |-> 0,
     queue |-> <<>>, crawled_urls |-> {}, stats |-> ZeroStats, result |-> NoResult]

\* where the handler continues once scrape_single_page has returned
AfterScrape(kind) == IF kind = "single" THEN "done" ELSE "scraped"

\* ------------------------------------------------------- the audit channel
\* the details of an audit row that the model does not look into
NoDetails == [query_type |-> None, query_length |-> 0, updated_fields |-> {}]

AuditRow(user_id, action, resource_type, resource_id) ==
    [user_id |-> user_id, action |-> action,
     resource_type |-> resource_type, resource_id |-> resource_id,
     details |-> NoDetails]

\* log_action that lets the failure of the audit write reach its caller
log_action_propagates(s, log, row, fails) ==
    IF fails
    THEN [sess |-> s, log |-> log, raised |-> TRUE]
    ELSE [sess |-> SessCommit(s), log |-> Append(log, row), raised |-> FALSE]

\* AuditService.log_action on session s: the row is added and committed, or,
\* when that fails, the exception is caught and the session rolled back.
\* raised tells whether an exception leaves log_action.
log_action(s, log, row, fails) ==
    IF fails
    THEN [sess |-> SessRollback(s), log |-> log, raised |-> FALSE]
    ELSE [sess |-> SessCommit(s), log |-> Append(log, row), raised |-> FALSE]

\* ------------------------------------------------------ crawling: actions
\* POST /api/scraping/run with single_page: scrape_single_page is entered
StartSinglePage(r, wid, url) ==
    /\ req[r].pc = "idle"
    /\ req' = [req EXCEPT ![r] = [IdleReq EXCEPT !.pc = "fetch", !.kind = "single",
                                     !.website_id = wid, !.url = url, !.depth = 0]]
    /\ served' = served + 1
    /\ UNCHANGED <<websites, pages, aiRuns, aiAvailable, audit>>
    /\ UNCHANGED nonCrawlVars

\* crawl_website up to the loop: the website lookup, the start_crawl audit
\* row, the queue seeded with (website.url, 0)
StartCrawl(r, wid, max_pages, auditFails) ==
    /\ req[r].pc = "idle"
    /\ IF wid \notin DOMAIN websites
       THEN /\ req' = [req EXCEPT ![r] = [IdleReq EXCEPT !.pc = "done", !.kind = "crawl",
                          !.website_id = wid, !.max_pages = max_pages,
                          !.result = [NoResult EXCEPT !.message = "Website not found"]]]
            /\ UNCHANGED audit
       ELSE LET a == log_action(Session(pages), audit,
                                AuditRow(CallerId, "start_crawl", "website", wid), auditFails)
            IN /\ audit' = a.log
               /\ req' = IF a.raised
                         THEN [req EXCEPT ![r] = [IdleReq EXCEPT !.pc = "done",
                                  !.kind = "crawl", !.website_id = wid,
                                  !.max_pages = max_pages,
                                  !.result = [NoResult EXCEPT !.message = "Crawl failed"]]]
                         ELSE [req EXCEPT ![r] = [IdleReq EXCEPT !.pc = "loop",
                                  !.kind = "crawl", !.website_id = wid,
                                  !.max_pages = max_pages,
                                  !.queue = <<[url |-> SeedUrl, depth |-> 0]>>]]
    /\ served' = served + 1
    /\ UNCHANGED <<websites, pages, aiRuns, aiAvailable>>
    /\ UNCHANGED nonCrawlVars

\* the queue read from its end: urls_to_crawl.pop()
pop_last(queue) ==
    [entry |-> queue[Len(queue)], rest |-> SubSeq(queue, 1, Len(queue) - 1)]

\* the head of the queue read without being removed
pop_peek(queue) == [entry |-> Head(queue), rest |-> queue]

\* urls_to_crawl.pop(0)
pop(queue) == [entry |-> Head(queue), rest |-> Tail(queue)]

\* the loop condition with the budget test off by one
LoopContinues_inclusive(q) ==
    /\ q.queue # <<>>
    /\ (q.max_pages = 0 \/ q.stats.pages_crawled <= q.max_pages)

\* a loop condition that would also test the website's status
LoopContinues_unless_paused(q) ==
    /\ q.queue # <<>>
    /\ (q.max_pages = 0 \/ q.stats.pages_crawled < q.max_pages)
    /\ websites[q.website_id].status # "paused"

\* the loop condition of crawl_website
LoopContinues(q) ==
    /\ q.queue # <<>>
    /\ (q.max_pages = 0 \/ q.stats.pages_crawled < q.max_pages)

\* one entry is popped: skipped when visited or too deep, else marked visited
\* and handed to scrape_single_page
CrawlPop(r) ==
    LET q == req[r]
        e == pop(q.queue).entry
        rest == pop(q.queue).rest
    IN /\ q.pc = "loop"
       /\ LoopContinues(q)
       /\ IF e.url \in q.crawled_urls \/ e.depth > websites[q.website_id].crawl_depth
          THEN req' = [req EXCEPT ![r].queue = rest]
          ELSE req' = [req EXCEPT ![r].queue = rest,
                                  ![r].crawled_urls = q.crawled_urls \cup {e.url},
                                  ![r].url = e.url, ![r].depth = e.depth,
                                  ![r].pc = "fetch"]
       /\ UNCHANGED <<websites, pages, aiRuns, aiAvailable, served, audit>>
       /\ UNCHANGED nonCrawlVars

\* the loop has ended: the complete_crawl audit row and the final stats
CrawlFinish(r, auditFails) ==
    LET q == req[r]
        a == log_action(Session(pages), audit,
                        AuditRow(CallerId, "complete_crawl", "website", q.website_id),
                        auditFails)
    IN /\ q.pc = "loop"
       /\ ~LoopContinues(q)
       /\ audit' = a.log
       /\ req' = [req EXCEPT ![r].pc = "done",
                             ![r].result = IF a.raised
                                 THEN [NoResult EXCEPT !.message = "Crawl failed"]
                                 ELSE [NoResult EXCEPT !.success = TRUE,
                                                       !.message = "Crawl completed"]]
       /\ UNCHANGED <<websites, pages, aiRuns, aiAvailable, served>>
       /\ UNCHANGED nonCrawlVars

\* what the caller of scrape_single_page gets and where it continues
Returns(r, result) ==
    [req EXCEPT ![r].result = result, ![r].pc = AfterScrape(req[r].kind)]

FetchOutcomes == {"ok", "robots", "http_error"}

\* scrape_single_page up to the duplicate check: the website lookup, the
\* robots.txt check, the fetch, the digest and the query for a stored page
\* with the same (website_id, url, hash_content)
ScrapeFetch(r, outcome, html) ==
    LET q == req[r]
        found == existing_page(pages, q.website_id, q.url, sha256(html))
    IN /\ q.pc = "fetch"
       /\ req' =
            IF q.website_id \notin DOMAIN websites
            THEN Returns(r, [NoResult EXCEPT !.message = "Website not found"])
            ELSE IF outcome = "robots"
            THEN Returns(r, [NoResult EXCEPT !.message = "Blocked by robots.txt"])
            ELSE IF outcome = "http_error"
            THEN Returns(r, [NoResult EXCEPT !.message = "fetch_error"])
            ELSE IF found # 0
            THEN [Returns(r, [success |-> TRUE, message |-> "Page content unchanged",
                              page |-> found,
                              raw_html |-> Page_to_dict(pages, found).raw_html])
                    EXCEPT ![r].html = html]
            ELSE [req EXCEPT ![r].html = html, ![r].pc = "insert"]
       /\ UNCHANGED <<websites, pages, aiRuns, aiAvailable, served, audit>>
       /\ UNCHANGED nonCrawlVars

\* scrape_single_page from the new Page row to the first commit, with the AI
\* analysis in between; a failing commit takes the except branch, which rolls
\* back and records the error on the website
ScrapeInsert(r, dbFails) ==
    LET q == req[r]
        analysed == aiAvailable /\ ExtractedText(q.html) # ""
        row == [id |-> Len(pages) + 1, website_id |-> q.website_id, url |-> q.url,
                hash_content |-> sha256(q.html), raw_html |-> q.html,
                depth |-> q.depth, analysed |-> analysed]
        s1 == SessWrite(Session(pages), Append(pages, row))
        s2 == IF dbFails THEN SessRollback(s1) ELSE SessCommit(s1)
    IN /\ q.pc = "insert"
       /\ pages' = s2.committed
       /\ aiRuns' = IF analysed THEN aiRuns + 1 ELSE aiRuns
       /\ IF dbFails
          THEN /\ websites' = [websites EXCEPT ![q.website_id].last_error = "db_error"]
               /\ req' = Returns(r, [NoResult EXCEPT !.message = "db_error"])
          ELSE /\ UNCHANGED websites
               /\ req' = [req EXCEPT ![r].page_id = row.id, ![r].pc = "stats"]
       /\ UNCHANGED <<aiAvailable, served, audit>>
       /\ UNCHANGED nonCrawlVars

\* scrape_single_page after the first commit: the website's statistics and
\* the second commit
ScrapeStats(r, dbFails) ==
    LET q == req[r]
        w == websites[q.website_id]
        s1 == SessWrite(Session(w), [w EXCEPT !.total_pages = page_count(pages, q.website_id),
                                              !.last_crawled = TRUE,
                                              !.last_error = None])
        s2 == IF dbFails THEN SessRollback(s1) ELSE SessCommit(s1)
    IN /\ q.pc = "stats"
       /\ IF dbFails
          THEN /\ websites' = [websites EXCEPT
                                 ![q.website_id] = [s2.committed EXCEPT !.last_error = "db_error"]]
               /\ req' = Returns(r, [NoResult EXCEPT !.message = "db_error"])
          ELSE /\ websites' = [websites EXCEPT ![q.website_id] = s2.committed]
               /\ req' = Returns(r, [success |-> TRUE, message |-> "Page scraped successfully",
                                     page |-> q.page_id,
                                     raw_html |-> Page_to_dict(pages, q.page_id).raw_html])
       /\ UNCHANGED <<pages, aiRuns, aiAvailable, served, audit>>
       /\ UNCHANGED nonCrawlVars

\* the enqueue condition with the boundary included
FollowsLinks_inclusive(depth, crawl_depth) == depth <= crawl_depth

\* the enqueue condition of crawl_website
FollowsLinks(depth, crawl_depth) == depth < crawl_depth

\* a failed page counted without its entry in the error list
record_failure_silent(stats, url, error) == [stats EXCEPT !.pages_failed = @ + 1]

\* the else branch of crawl_website's loop body: the failure is counted and
\* its URL and error appended to stats['errors']
record_failure(stats, url, error) ==
    [stats EXCEPT !.pages_failed = @ + 1,
                  !.errors = Append(@, [url |-> url, error |-> error])]

\* crawl_website after scrape_single_page has returned: the statistics, the
\* links enqueued one level deeper, or the error recorded
CrawlRecord(r, order) ==
    LET q == req[r]
        w == websites[q.website_id]
        fresh == SelectSeqBy(order, q.crawled_urls)
    IN /\ q.pc = "scraped"
       /\ IF q.result.success
          THEN /\ order \in
                    IF FollowsLinks(q.depth, w.crawl_depth)
                    THEN Orders(extract_links(q.result.raw_html, q.url, w.follow_external_links))
                    ELSE {<<>>}
               /\ req' = [req EXCEPT
                    ![r].stats.pages_crawled = @ + 1,
                    ![r].queue = @ \o [i \in 1..Len(fresh) |->
                                         [url |-> fresh[i], depth |-> q.depth + 1]],
                    ![r].pc = "loop"]
          ELSE /\ order = <<>>
               /\ req' = [req EXCEPT
                    ![r].stats = record_failure(@, q.url, q.result.message),
                    ![r].pc = "loop"]
       /\ UNCHANGED <<websites, pages, aiRuns, aiAvailable, served, audit>>
       /\ UNCHANGED nonCrawlVars

\* every listing of at most all page-like targets, the candidates for order
LinkOrders == UNION { Orders(S) : S \in SUBSET (PageUrls \cup {"x"}) }

\* stop_crawl: the website is marked paused and the action audited
stop_crawl(wid, auditFails) ==
    /\ wid \in DOMAIN websites
    /\ LET s1 == SessCommit(SessWrite(Session(websites),
                                      [websites EXCEPT ![wid].status = "paused"]))
           a == log_action(s1, audit, AuditRow(CallerId, "stop_crawl", "website", wid),
                           auditFails)
       IN /\ websites' = a.sess.committed
          /\ audit' = a.log
    /\ UNCHANGED <<pages, aiRuns, aiAvailable, req, served>>
    /\ UNCHANGED nonCrawlVars

\* ------------------------------------------------ access: pure helpers
\* the accounts of the access model: an administrator, two ordinary users
\* and a deactivated user; identity 5 has a token but no User row
UserRows ==
    1 :> [email |-> "e1", role |-> "admin", is_active |-> TRUE, last_login |-> 0, first_name |-> "a",
       password_hash |-> "h"]
 @@ 2 :> [email |-> "e2", role |-> "user", is_active |-> TRUE, last_login |-> 0, first_name |-> "a",
       password_hash |-> "h"]
 @@ 3 :> [email |-> "e3", role |-> "user", is_active |-> TRUE, last_login |-> 0, first_name |-> "a",
       password_hash |-> "h"]
 @@ 4 :> [email |-> "e4", role |-> "user", is_active |-> FALSE, last_login |-> 0, first_name |-> "a",
       password_hash |-> "h"]
Identities == {0, 1, 2, 3, 4, 5}
\* project ids in requests: 1 exists, 2 does not, 0 is the falsy id
ProjectIdArgs == {0, 1, 2}
ProjectIds == {1, 2}
\* users with a row, as callers of the collaborator operations
Callers == {1, 2, 3, 4}
Roles == {"viewer", "collaborator", "owner"}
\* e-mail addresses as typed; "E3 " is e3 and " E5" is e5 before
\* lower().strip()
EmailArgs == {"e1", "e2", "E3 ", "e9"}
NormalizeEmail(e) == CASE e = "E3 " -> "e3" [] e = " E5" -> "e5" [] OTHER -> e
NameArgs == {"absent", "", "q"}

NoUser == [email |-> None, role |-> None, is_active |-> FALSE, last_login |-> 0, first_name |-> "a",
       password_hash |-> "h"]
\* create_access_token / create_refresh_token: the identity a token carries
NoTokens == [access_token |-> 0, refresh_token |-> 0]
TokensFor(uid) == [access_token |-> uid, refresh_token |-> uid]
NoResp ==
    [op |-> None, user |-> 0, resource |-> 0, code |-> 0, ran |-> FALSE, success |-> FALSE,
     message |-> None, tokens |-> NoTokens]

\* User.query.get(user_id)
user_get(uid) == IF uid \in DOMAIN users THEN users[uid] ELSE NoUser
user_exists(uid) == uid \in DOMAIN users

\* AuthService.get_user_by_id: the row of an active user, else nothing
get_user_by_id(uid) ==
    IF user_exists(uid) /\ users[uid].is_active THEN uid ELSE 0

\* User.query.filter_by(email=...).first()
user_by_email(email) ==
    IF \E u \in DOMAIN users : users[u].email = email
    THEN CHOOSE u \in DOMAIN users : users[u].email = email
    ELSE 0

\* Project.get_collaborator_role: the role stored for the user, or None
get_collaborator_role(pid, uid) ==
    LET hits == { i \in 1..Len(collaborators) :
                    collaborators[i].project_id = pid /\ collaborators[i].user_id = uid }
    IN IF hits = {} THEN None
       ELSE collaborators[CHOOSE i \in hits : \A j \in hits : i <= j].role

\* can_access_project without the collaborator branch
can_access_project_owner_only(uid, pid) ==
    \/ users[uid].role = "admin"
    \/ projects[pid].owner_id = uid

\* AuthorizationService.can_access_project
can_access_project(uid, pid) ==
    \/ users[uid].role = "admin"
    \/ projects[pid].owner_id = uid
    \/ get_collaborator_role(pid, uid) # None

\* the duplicate check that finds no one
already_collaborator_never(pid, uid) == FALSE

\* if project.get_collaborator_role(collaborator.id): a stored role that is
\* neither None nor empty
already_collaborator(pid, uid) == get_collaborator_role(pid, uid) \notin {None, ""}

\* can_edit_project with every collaborator role accepted
can_edit_project_any_role(uid, pid) ==
    \/ users[uid].role = "admin"
    \/ projects[pid].owner_id = uid
    \/ get_collaborator_role(pid, uid) # None

\* AuthorizationService.can_edit_project
can_edit_project(uid, pid) ==
    \/ users[uid].role = "admin"
    \/ projects[pid].owner_id = uid
    \/ get_collaborator_role(pid, uid) \in {"owner", "collaborator"}

\* AuthorizationService.can_delete_project
can_delete_project(uid, pid) ==
    \/ users[uid].role = "admin"
    \/ projects[pid].owner_id = uid

\* project_access_required: the status the guard answers with, 0 when it
\* lets the request through to the handler
project_access_required(identity, pid) ==
    IF get_user_by_id(identity) = 0 \/ pid = 0 THEN 400
    ELSE IF pid \notin DOMAIN projects THEN 404
    ELSE IF ~can_access_project(identity, pid) THEN 403
    ELSE 0

\* admin_required: the status the guard answers with, 0 when it lets the
\* request through to the handler
admin_required(identity) ==
    IF identity = 0 THEN 401
    ELSE IF get_user_by_id(identity) = 0 THEN 404
    ELSE IF ~users[identity].is_active THEN 403
    ELSE IF users[identity].role # "admin" THEN 403
    ELSE 0

\* no snippet extracted yet
ReviewIdle ==
    /\ snippets = <<>>
    /\ clock = 1

NoJob == [pc |-> "idle", export_id |-> 0, user_id |-> 0]

\* no search has been asked for yet
NoSearch == [called |-> FALSE, max_results |-> 0, trace |-> <<>>, returned |-> <<>>]
\* a database not provisioned yet: no tables, no triggers
NoFts ==
    [provisioned |-> FALSE, table |-> FALSE, triggers |-> {}, rows |-> <<>>,
     index |-> <<>>, next_id |-> 1]
\* no content has been scored yet
NoRule == [required |-> FALSE, rule_type |-> None, selector |-> None]
NoConfidence ==
    [called |-> FALSE, content |-> [length |-> 0, isspace |-> FALSE], rule |-> NoRule,
     score |-> 0]
\* a ScrapingService as __init__ leaves it: no driver, the lock free
NoFetch == [success |-> FALSE, error |-> None, html |-> None]
NoBrowser ==
    [driver |-> 0, lock |-> None, created |-> 0, calls |-> 0,
     pc |-> [t \in Threads |-> "idle"], result |-> [t \in Threads |-> NoFetch]]
\* the extraction rules and pages of two projects, and no snippet yet:
\* project 1 has two active rules, project 2 only an inactive one; page 1
\* is of a website of project 1, page 2 of a website of project 2
RuleRows ==
    1 :> [project_id |-> 1, is_active |-> TRUE, priority |-> 100]
 @@ 2 :> [project_id |-> 1, is_active |-> TRUE, priority |-> 200]
 @@ 3 :> [project_id |-> 2, is_active |-> FALSE, priority |-> 100]
NoExtractResult == [success |-> FALSE, message |-> None, snippets |-> <<>>]
SeededExtraction ==
    [rules |-> RuleRows, page_project |-> (1 :> 1 @@ 2 :> 2), snippets |-> <<>>,
     calls |-> 0, result |-> NoExtractResult]
ServicesIdle ==
    /\ search = NoSearch
    /\ fts = NoFts
    /\ confidence = NoConfidence
    /\ browser = NoBrowser
    /\ extraction = SeededExtraction

\* no export requested yet
ExportIdle ==
    /\ exports = <<>>
    /\ files = {}
    /\ job = NoJob

AccessIdle ==
    /\ users = UserRows
    /\ projects = <<>>
    /\ collaborators = <<>>
    /\ resp = NoResp
    /\ ReviewIdle
    /\ ExportIdle
    /\ ServicesIdle

\* -------------------------------------------------------- access: actions
\* what a route answers: the operation, the caller, the resource id in the
\* URL, the HTTP status, whether the handler ran and the result's success
Response(op, identity, id, code, ran, success) ==
    [op |-> op, user |-> identity, resource |-> id, code |-> code,
     ran |-> ran, success |-> success, message |-> None, tokens |-> NoTokens]

\* POST /api/scraping/stop/<website_id>: not-found for a missing website;
\* otherwise the route calls ScrapingService.stop_scraping, an attribute the
\* class does not have, and the AttributeError becomes the 500 response
StopScraping(identity, website_id) ==
    /\ resp' = IF website_id \notin DOMAIN websites
               THEN [Response("stop_scraping", identity, website_id, 404, FALSE, FALSE)
                        EXCEPT !.message = "Website not found"]
               ELSE [Response("stop_scraping", identity, website_id, 500, FALSE, FALSE)
                        EXCEPT !.message = "Failed to stop scraping"]
    /\ UNCHANGED <<users, projects, collaborators, audit>>
    /\ UNCHANGED nonAccessVars

\* the two project tables as one session
ProjectTables == [projects |-> projects, collaborators |-> collaborators]

WithoutProject(pid) ==
    [projects |-> [p \in DOMAIN projects \ {pid} |-> projects[p]],
     collaborators |-> SelectSeq(collaborators, LAMBDA c : c.project_id # pid)]

\* GET /api/projects/<id>
GetProject(identity, pid) ==
    LET g == project_access_required(identity, pid) IN
    /\ resp' = IF g # 0 THEN Response("get_project", identity, pid, g, FALSE, FALSE)
               ELSE Response("get_project", identity, pid, 200, TRUE, TRUE)
    /\ UNCHANGED <<users, projects, collaborators, audit>>
    /\ UNCHANGED nonAccessVars

\* PUT /api/projects/<id>: the guard, then ProjectService.update_project
UpdateProject(identity, pid, name, auditFails) ==
    LET g == project_access_required(identity, pid) IN
    /\ IF g # 0
       THEN /\ resp' = Response("update_project", identity, pid, g, FALSE, FALSE)
            /\ UNCHANGED <<projects, audit>>
       ELSE IF ~user_exists(identity) \/ ~can_edit_project(identity, pid)
       THEN /\ resp' = Response("update_project", identity, pid, 400, TRUE, FALSE)
            /\ UNCHANGED <<projects, audit>>
       ELSE IF name = ""
       THEN /\ resp' = Response("update_project", identity, pid, 400, TRUE, FALSE)
            /\ UNCHANGED <<projects, audit>>
       ELSE LET new == IF name = "absent" THEN projects
                       ELSE [projects EXCEPT ![pid].name = name]
                s1 == SessCommit(SessWrite(Session(projects), new))
                a == log_action(s1, audit,
                                AuditRow(identity, "update_project", "project", pid),
                                auditFails)
            IN /\ projects' = a.sess.committed
               /\ audit' = a.log
               /\ resp' = IF a.raised
                          THEN Response("update_project", identity, pid, 400, TRUE, FALSE)
                          ELSE Response("update_project", identity, pid, 200, TRUE, TRUE)
    /\ UNCHANGED <<users, collaborators>>
    /\ UNCHANGED nonAccessVars

\* DELETE /api/projects/<id>: the guard, then ProjectService.delete_project
DeleteProject(identity, pid, auditFails) ==
    LET g == project_access_required(identity, pid) IN
    /\ IF g # 0
       THEN /\ resp' = Response("delete_project", identity, pid, g, FALSE, FALSE)
            /\ UNCHANGED <<projects, collaborators, audit>>
       ELSE IF ~user_exists(identity) \/ ~can_delete_project(identity, pid)
       THEN /\ resp' = Response("delete_project", identity, pid, 403, TRUE, FALSE)
            /\ UNCHANGED <<projects, collaborators, audit>>
       ELSE LET s1 == SessCommit(SessWrite(Session(ProjectTables), WithoutProject(pid)))
                a == log_action(s1, audit,
                                AuditRow(identity, "delete_project", "project", pid),
                                auditFails)
            IN /\ projects' = a.sess.committed.projects
               /\ collaborators' = a.sess.committed.collaborators
               /\ audit' = a.log
               /\ resp' = IF a.raised
                          THEN Response("delete_project", identity, pid, 403, TRUE, FALSE)
                          ELSE Response("delete_project", identity, pid, 200, TRUE, TRUE)
    /\ UNCHANGED users
    /\ UNCHANGED nonAccessVars

\* POST /api/projects/<id>/collaborators: the guard, then
\* ProjectService.add_collaborator
AddCollaborator(identity, pid, email, role, auditFails) ==
    LET g == project_access_required(identity, pid)
        collaborator == user_by_email(NormalizeEmail(email))
        refusal == IF ~user_exists(identity) \/ ~can_edit_project(identity, pid)
                   THEN "Permission denied"
                   ELSE IF collaborator = 0 THEN "User not found"
                   ELSE IF already_collaborator(pid, collaborator)
                        THEN "User is already a collaborator"
                        ELSE None
    IN
    /\ IF g # 0
       THEN /\ resp' = Response("add_collaborator", identity, pid, g, FALSE, FALSE)
            /\ UNCHANGED <<collaborators, audit>>
       ELSE IF refusal # None
       THEN /\ resp' = [Response("add_collaborator", identity, pid, 400, TRUE, FALSE)
                           EXCEPT !.message = refusal]
            /\ UNCHANGED <<collaborators, audit>>
       ELSE LET row == [project_id |-> pid, user_id |-> collaborator, role |-> role]
                s1 == SessCommit(SessWrite(Session(collaborators),
                                           Append(collaborators, row)))
                a == log_action(s1, audit,
                                AuditRow(identity, "add_collaborator", "project", pid),
                                auditFails)
            IN /\ collaborators' = a.sess.committed
               /\ audit' = a.log
               /\ resp' = IF a.raised
                          THEN Response("add_collaborator", identity, pid, 400, TRUE, FALSE)
                          ELSE Response("add_collaborator", identity, pid, 200, TRUE, TRUE)
    /\ UNCHANGED <<users, projects>>
    /\ UNCHANGED nonAccessVars

\* ProjectService.remove_collaborator (no route calls it; no guard in front)
RemoveCollaborator(user_id, pid, collaborator_id, auditFails) ==
    LET kept == SelectSeq(collaborators,
                          LAMBDA c : ~(c.user_id = collaborator_id /\ c.project_id = pid))
    IN
    /\ IF \/ pid \notin DOMAIN projects
          \/ ~user_exists(user_id) \/ ~can_edit_project(user_id, pid)
          \/ Len(kept) = Len(collaborators)
       THEN /\ resp' = Response("remove_collaborator", user_id, pid, 0, TRUE, FALSE)
            /\ UNCHANGED <<collaborators, audit>>
       ELSE LET s1 == SessCommit(SessWrite(Session(collaborators), kept))
                a == log_action(s1, audit,
                                AuditRow(user_id, "remove_collaborator", "project", pid),
                                auditFails)
            IN /\ collaborators' = a.sess.committed
               /\ audit' = a.log
               /\ resp' = Response("remove_collaborator", user_id, pid, 0, TRUE,
                                   ~a.raised)
    /\ UNCHANGED <<users, projects>>
    /\ UNCHANGED nonAccessVars

\* any endpoint behind admin_required
AdminEndpoint(identity) ==
    LET g == admin_required(identity) IN
    /\ resp' = IF g # 0 THEN Response("admin", identity, 0, g, FALSE, FALSE)
               ELSE Response("admin", identity, 0, 200, TRUE, TRUE)
    /\ UNCHANGED <<users, projects, collaborators, audit>>
    /\ UNCHANGED nonAccessVars

\* -------------------------------------------------------- review: actions
\* status values a review request may carry; "pending" is not a review status
StatusArgs == {"approved", "rejected", "pending"}
NotesArgs == {None, "n"}
SnippetIdArgs == {1, 2}
Reviewers == {1, 2, 3, 5}

\* a snippet that is born approved
NewSnippet_approved(pid) ==
    [project_id |-> pid, status |-> "approved",
     reviewed_by |-> 0, reviewed_at |-> 0, review_notes |-> None]

\* Snippet(..., status='pending') as extract_content_from_page builds it
NewSnippet(pid) ==
    [project_id |-> pid, status |-> "pending",
     reviewed_by |-> 0, reviewed_at |-> 0, review_notes |-> None]

\* ContentService.extract_content_from_page saving one extracted snippet
ExtractContent(pid) ==
    /\ pid \in DOMAIN projects
    /\ snippets' = SessCommit(SessWrite(Session(snippets),
                                        Append(snippets, NewSnippet(pid)))).committed
    /\ UNCHANGED <<clock, audit>>
    /\ UNCHANGED <<serviceVars, crawlVars, accessVars, exportVars>>

\* PUT /api/content/snippets/<id>/approve, then
\* ContentService.update_snippet_status
UpdateSnippetStatus(identity, sid, status, notes, auditFails) ==
    /\ IF status \notin {"approved", "rejected"}
       THEN /\ resp' = Response("review_snippet", identity, sid, 400, FALSE, FALSE)
            /\ UNCHANGED <<snippets, audit>>
       ELSE IF \/ sid \notin DOMAIN snippets
               \/ ~user_exists(identity)
               \/ ~can_edit_project(identity, snippets[sid].project_id)
       THEN /\ resp' = Response("review_snippet", identity, sid, 400, TRUE, FALSE)
            /\ UNCHANGED <<snippets, audit>>
       ELSE LET new == [snippets EXCEPT ![sid].status = status,
                                        ![sid].reviewed_by = identity,
                                        ![sid].reviewed_at = clock,
                                        ![sid].review_notes = notes]
                s1 == SessCommit(SessWrite(Session(snippets), new))
                a == log_action(s1, audit,
                                AuditRow(identity, "review_snippet", "snippet", sid),
                                auditFails)
            IN /\ snippets' = a.sess.committed
               /\ audit' = a.log
               /\ resp' = IF a.raised
                          THEN Response("review_snippet", identity, sid, 400, TRUE, FALSE)
                          ELSE Response("review_snippet", identity, sid, 200, TRUE, TRUE)
    /\ UNCHANGED <<users, projects, collaborators, clock>>
    /\ UNCHANGED <<serviceVars, crawlVars, exportVars>>

\* time passes
Tick ==
    /\ clock < MaxClock
    /\ clock' = clock + 1
    /\ UNCHANGED <<snippets, audit>>
    /\ UNCHANGED <<serviceVars, crawlVars, accessVars, exportVars>>

\* -------------------------------------------------------- export: helpers
TypeArgs == {"csv", "xml"}
ValidTypes == {"csv", "excel", "pdf", "json"}
FileNames == {"f1"}
ExportIdArgs == {1, 2}
Creators == {2}
Downloaders == {1, 2, 3, 4}

\* os.path.join('exports', export.filename)
FilePath(filename) == IF filename = "f1" THEN "exports/f1" ELSE "exports/other"

\* datetime.utcnow() + timedelta(days=7): the clock ticks in steps longer
\* than seven days, so the export is live in the tick it was created in and
\* past its expiry in every later one
ExpiresAt(now) == now

\* Export(user_id, ..., status='pending', progress=0) with expires_at set
new_export(user_id, filename, now) ==
    [user_id |-> user_id, filename |-> filename, status |-> "pending",
     progress |-> 0, file_path |-> None, completed_at |-> 0,
     expires_at |-> ExpiresAt(now), error_message |-> None]

\* _process_export, first commit
process_start(row) == [row EXCEPT !.status = "processing", !.progress = 10]

\* _process_export that swallows a rendering exception
process_result_swallow(row, renderOk, now) ==
    IF renderOk
    THEN [row EXCEPT !.status = "completed", !.progress = 100,
                     !.file_path = FilePath(row.filename), !.completed_at = now]
    ELSE row

\* _process_export, second commit: completed, or failed on an exception
process_result(row, renderOk, now) ==
    IF renderOk
    THEN [row EXCEPT !.status = "completed", !.progress = 100,
                     !.file_path = FilePath(row.filename), !.completed_at = now]
    ELSE [row EXCEPT !.status = "failed", !.error_message = "error"]

\* export.expires_at < datetime.utcnow()
is_past(row, now) == row.expires_at < now

\* the download check without the expiry test
download_refusal_no_expiry(identity, eid) ==
    IF eid \notin DOMAIN exports THEN "Export not found"
    ELSE IF users[identity].role # "admin" /\ exports[eid].user_id # identity
    THEN "Access denied"
    ELSE IF exports[eid].status # "completed" THEN "Export is not completed"
    ELSE IF exports[eid].file_path = None \/ exports[eid].file_path \notin files
    THEN "Export file not found"
    ELSE None

\* ExportService.download_export: the message it refuses with, or None
download_refusal(identity, eid) ==
    IF eid \notin DOMAIN exports THEN "Export not found"
    ELSE IF users[identity].role # "admin" /\ exports[eid].user_id # identity
    THEN "Access denied"
    ELSE IF exports[eid].status # "completed" THEN "Export is not completed"
    ELSE IF exports[eid].file_path = None \/ exports[eid].file_path \notin files
    THEN "Export file not found"
    ELSE IF is_past(exports[eid], clock) THEN "Export has expired"
    ELSE None

\* cleanup that also sweeps failed exports
cleanup_selects_any_status(row, now) ==
    is_past(row, now) /\ row.status \in {"completed", "failed"}

\* the filter of cleanup_expired_exports
cleanup_selects(row, now) == is_past(row, now) /\ row.status = "completed"

\* -------------------------------------------------------- export: actions
\* POST /api/reports/export up to the commit of the pending row
CreateExport(identity, type, filename) ==
    /\ job.pc = "idle"
    /\ IF type \notin ValidTypes
       THEN /\ resp' = Response("create_export", identity, 0, 400, FALSE, FALSE)
            /\ UNCHANGED <<exports, job>>
       ELSE /\ exports' = SessCommit(SessWrite(Session(exports),
                             Append(exports, new_export(identity, filename, clock)))).committed
            /\ job' = [pc |-> "created", export_id |-> Len(exports) + 1,
                       user_id |-> identity]
            /\ UNCHANGED resp
    /\ UNCHANGED <<files, clock, audit>>
    /\ UNCHANGED <<serviceVars, crawlVars, users, projects, collaborators, snippets>>

\* _process_export: status 'processing', progress 10, commit
ProcessStart ==
    /\ job.pc = "created"
    /\ exports' = SessCommit(SessWrite(Session(exports),
                     [exports EXCEPT ![job.export_id] = process_start(@)])).committed
    /\ job' = [job EXCEPT !.pc = "processing"]
    /\ UNCHANGED <<files, clock, audit, resp>>
    /\ UNCHANGED <<serviceVars, crawlVars, users, projects, collaborators, snippets>>

\* _process_export renders and commits; create_export audits and returns
ProcessFinish(renderOk, auditFails) ==
    /\ job.pc = "processing"
    /\ LET id == job.export_id
           row == process_result(exports[id], renderOk, clock)
           s1 == SessCommit(SessWrite(Session(exports), [exports EXCEPT ![id] = row]))
           a == log_action(s1, audit,
                           AuditRow(job.user_id, "create_export", "export", id),
                           auditFails)
       IN /\ exports' = a.sess.committed
          /\ files' = IF renderOk THEN files \cup {FilePath(exports[id].filename)}
                      ELSE files
          /\ audit' = a.log
          /\ resp' = IF a.raised
                     THEN Response("create_export", job.user_id, id, 400, TRUE, FALSE)
                     ELSE Response("create_export", job.user_id, id, 201, TRUE, TRUE)
    /\ job' = NoJob
    /\ UNCHANGED clock
    /\ UNCHANGED <<serviceVars, crawlVars, users, projects, collaborators, snippets>>

\* GET /api/reports/downloads/<id>, then ExportService.download_export
DownloadExport(identity, eid, auditFails) ==
    /\ IF get_user_by_id(identity) = 0
       THEN /\ resp' = Response("download_export", identity, eid, 500, FALSE, FALSE)
            /\ UNCHANGED audit
       ELSE IF download_refusal(identity, eid) # None
       THEN /\ resp' = Response("download_export", identity, eid, 400, TRUE, FALSE)
            /\ UNCHANGED audit
       ELSE LET a == log_action(Session(exports), audit,
                                AuditRow(identity, "download_export", "export", eid),
                                auditFails)
            IN /\ audit' = a.log
               /\ resp' = IF a.raised
                          THEN Response("download_export", identity, eid, 400, TRUE, FALSE)
                          ELSE Response("download_export", identity, eid, 200, TRUE, TRUE)
    /\ UNCHANGED <<exports, files, job, clock>>
    /\ UNCHANGED <<serviceVars, crawlVars, users, projects, collaborators, snippets>>

\* ExportService.cleanup_expired_exports; os.remove fails for the paths in stuck
CleanupExpiredExports(stuck) ==
    LET expired == { i \in DOMAIN exports : cleanup_selects(exports[i], clock) }
        paths == { exports[i].file_path : i \in expired } \ {None}
        new == [i \in DOMAIN exports |->
                  IF i \in expired
                  THEN [exports[i] EXCEPT !.status = "expired", !.file_path = None]
                  ELSE exports[i]]
    IN /\ files' = files \ (paths \ stuck)
       /\ exports' = SessCommit(SessWrite(Session(exports), new)).committed
       /\ UNCHANGED <<job, clock, audit, resp>>
       /\ UNCHANGED <<serviceVars, crawlVars, users, projects, collaborators, snippets>>

\* a file disappears from disk outside the application
FileLost(path) ==
    /\ path \in files
    /\ files' = files \ {path}
    /\ UNCHANGED <<exports, job, clock, audit, resp>>
    /\ UNCHANGED <<serviceVars, crawlVars, users, projects, collaborators, snippets>>

\* ------------------------------------------------------------ the search
\* _generate_search_queries returns five variants of the query, of which
\* comprehensive_search tries the first three
QueryVariants == 5
VariantLimit == 3

Min(a, b) == IF a < b THEN a ELSE b
\* q[:n]
Take(q, n) == SubSeq(q, 1, Min(n, Len(q)))

\* a search result: its url and title, where it came from, and whether
\* _enhance_search_results has stamped it
Hit(url, title) == [url |-> url, title |-> title, source |-> None, retrieved |-> FALSE]

\* what a provider or the scraper finds for a query variant: two pages with
\* the same title, two with the same url, or one page of its own
HitLists ==
    { <<>>, <<Hit("a", "t1"), Hit("b", "t1")>>, <<Hit("c", "t3"), Hit("a", "t2")>>,
      <<Hit("d", "t4")>> }
LocalLists == { <<>>, <<Hit("f1", "l1")>>, <<Hit("f1", "l1"), Hit("f2", "l2")>> }
\* the API keys configured: none, Bing alone, Bing and SerpAPI
KeySets == { {}, {"bing"}, {"bing", "serpapi"} }

\* the results with their source written in
RECURSIVE Tagged(_, _)
Tagged(q, source) ==
    IF q = <<>> THEN <<>>
    ELSE <<[Head(q) EXCEPT !.source = source]>> \o Tagged(Tail(q), source)

\* one provider's answer, when its key is configured
ProviderResults(env, v, provider) ==
    IF provider \in env.keys
    THEN Tagged(Take(env.web[v], env.max_results \div 3), provider)
    ELSE <<>>

\* _create_fallback_results: the single synthesized result
create_fallback_results ==
    <<[Hit("internal://analysis_framework", "fw") EXCEPT !.source = "fallback"]>>

\* SequenceMatcher ratio above 0.8: titles of the model are alike when equal
Similar(t1, t2) == t1 = t2

RECURSIVE Dedup(_, _, _)
\* the loop of _deduplicate_results over what is left of the results
Dedup(q, seen_urls, seen_titles) ==
    IF q = <<>> THEN <<>>
    ELSE LET r == Head(q) IN
         IF r.url \in seen_urls THEN Dedup(Tail(q), seen_urls, seen_titles)
         ELSE IF \E t \in seen_titles : Similar(r.title, t)
              THEN Dedup(Tail(q), seen_urls, seen_titles)
              ELSE <<r>> \o Dedup(Tail(q), seen_urls \cup {r.url},
                                  seen_titles \cup {r.title})

deduplicate_results(results) == Dedup(results, {}, {})

\* _enhance_search_results stamps every result and drops none
enhance_search_results(results) ==
    [i \in DOMAIN results |-> [results[i] EXCEPT !.retrieved = TRUE]]

\* search_queries[:3] with every variant kept
FirstVariants_all(queries) == queries

\* search_queries[:3]
FirstVariants(queries) == Take(queries, VariantLimit)

TierTried(tier, v, n) == [tier |-> tier, variant |-> v, n |-> n]

\* the body of the loop for one variant: the providers, then the scraper
\* when the providers gave nothing
WebVariant(env, v) ==
    LET api == ProviderResults(env, v, "bing") \o ProviderResults(env, v, "google")
                  \o ProviderResults(env, v, "serpapi")
        scraping == Tagged(Take(env.scraped[v], env.max_results \div 2), "scraping")
    IN IF api = <<>>
       THEN [results |-> scraping,
             trace |-> <<TierTried("providers", v, 0),
                         TierTried("scraping", v, Len(scraping))>>]
       ELSE [results |-> api, trace |-> <<TierTried("providers", v, Len(api))>>]

RECURSIVE WebTier(_, _)
\* the loop over the variants
WebTier(env, queries) ==
    IF queries = <<>> THEN [results |-> <<>>, trace |-> <<>>]
    ELSE LET one == WebVariant(env, Head(queries))
             rest == WebTier(env, Tail(queries))
         IN [results |-> one.results \o rest.results, trace |-> one.trace \o rest.trace]

\* SearchEngine.comprehensive_search
comprehensive_search(env) ==
    LET web == WebTier(env, FirstVariants([v \in 1..QueryVariants |-> v]))
        local_results == Tagged(Take(env.local, env.max_results), "local_file")
        t2 == IF web.results = <<>>
              THEN [results |-> local_results,
                    trace |-> web.trace \o <<TierTried("local", 0, Len(local_results))>>]
              ELSE web
        t3 == IF t2.results = <<>>
              THEN [results |-> create_fallback_results,
                    trace |-> t2.trace \o <<TierTried("fallback", 0, 1)>>]
              ELSE t2
    IN [called |-> TRUE, max_results |-> env.max_results, trace |-> t3.trace,
        returned |-> enhance_search_results(
                        Take(deduplicate_results(t3.results), env.max_results))]

ExtraHits == <<Hit("e", "t5")>>

\* the web as one call finds it: the first three variants answer as drawn,
\* the fourth and the fifth always have a page
SearchEnvs ==
    { [keys |-> k, web |-> w \o <<ExtraHits, ExtraHits>>,
       scraped |-> sc \o <<ExtraHits, ExtraHits>>, local |-> l, max_results |-> m] :
      k \in KeySets, w \in [1..VariantLimit -> HitLists],
      sc \in [1..VariantLimit -> HitLists], l \in LocalLists, m \in 1..MaxResults }

\* one call of comprehensive_search
ComprehensiveSearch(env) ==
    /\ ~search.called
    /\ search' = comprehensive_search(env)
    /\ UNCHANGED <<crawlVars, accessVars, reviewVars, exportVars, audit, fts, confidence, browser, extraction>>

\* ------------------------------------------------- the full-text index
FtsTriggers == {"pages_fts_insert", "pages_fts_delete", "pages_fts_update"}
PageTitles == {"t", "t2"}
PageTexts == {"x", "y"}
PageUrlArgs == {"u"}
PageIdArgs == {1, 2}

\* the pages_fts row the triggers write for a Page row
IndexRow(id, row) ==
    [page_id |-> id, title |-> row.title, content |-> row.extracted_text, url |-> row.url]

RECURSIVE WithoutPage(_, _)
\* DELETE FROM pages_fts WHERE page_id = old.id
WithoutPage(index, id) ==
    IF index = <<>> THEN <<>>
    ELSE IF Head(index).page_id = id THEN WithoutPage(Tail(index), id)
         ELSE <<Head(index)>> \o WithoutPage(Tail(index), id)

\* db_setup.create_tables: the tables, the pages_fts table and its three
\* triggers, each created if it does not exist
create_tables(db) ==
    [db EXCEPT !.provisioned = TRUE, !.table = TRUE, !.triggers = FtsTriggers]

\* start.setup_database: the tables and the pages_fts table
setup_database(db) == [db EXCEPT !.provisioned = TRUE, !.table = TRUE]

\* python db_setup.py create
CreateTables ==
    /\ fts' = create_tables(fts)
    /\ UNCHANGED <<crawlVars, accessVars, reviewVars, exportVars, audit, search, confidence, browser, extraction>>

\* python start.py, database step
SetupDatabase ==
    /\ fts' = setup_database(fts)
    /\ UNCHANGED <<crawlVars, accessVars, reviewVars, exportVars, audit, search, confidence, browser, extraction>>

\* INSERT INTO pages, with the AFTER INSERT trigger if there is one
PageInsert(title, extracted_text, url) ==
    LET id == fts.next_id
        row == [title |-> title, extracted_text |-> extracted_text, url |-> url]
    IN /\ fts.provisioned
       /\ id <= MaxPageRows
       /\ fts' = [fts EXCEPT !.rows = @ @@ (id :> row),
                             !.next_id = id + 1,
                             !.index = IF "pages_fts_insert" \in fts.triggers
                                       THEN Append(@, IndexRow(id, row)) ELSE @]
       /\ UNCHANGED <<crawlVars, accessVars, reviewVars, exportVars, audit, search, confidence, browser, extraction>>

\* UPDATE pages, with the AFTER UPDATE trigger if there is one
PageUpdate(id, title) ==
    /\ fts.provisioned
    /\ id \in DOMAIN fts.rows
    /\ LET row == [fts.rows[id] EXCEPT !.title = title] IN
       fts' = [fts EXCEPT !.rows[id] = row,
                          !.index = IF "pages_fts_update" \in fts.triggers
                                    THEN Append(WithoutPage(@, id), IndexRow(id, row))
                                    ELSE @]
    /\ UNCHANGED <<crawlVars, accessVars, reviewVars, exportVars, audit, search, confidence, browser, extraction>>

\* DELETE FROM pages, with the AFTER DELETE trigger if there is one
PageDelete(id) ==
    /\ fts.provisioned
    /\ id \in DOMAIN fts.rows
    /\ fts' = [fts EXCEPT !.rows = [p \in DOMAIN fts.rows \ {id} |-> fts.rows[p]],
                          !.index = IF "pages_fts_delete" \in fts.triggers
                                    THEN WithoutPage(@, id) ELSE @]
    /\ UNCHANGED <<crawlVars, accessVars, reviewVars, exportVars, audit, search, confidence, browser, extraction>>

\* ------------------------------------------------- the confidence score
\* a content string, as far as the score looks at it: its length and
\* whether it is all whitespace (the empty string is not)
ContentLengths == {0, 1, 9, 10, 50, 500, 501}
Contents ==
    { c \in [length : ContentLengths, isspace : BOOLEAN] : c.isspace => c.length > 0 }
Rules ==
    [required : BOOLEAN, rule_type : {"css", "xpath", "regex"},
     selector : {"h1", "h2", "h3", "title", "div", "h1 a"}]

\* the score with min(1.0, score) left out
Clamp_none(score) == score

\* round(min(1.0, score), 3), scores being counted in thousandths
Clamp(score) == Min(1000, score)

\* ContentService._calculate_confidence_score
calculate_confidence_score(content, rule) ==
    LET base == 500
        by_length == IF 10 <= content.length /\ content.length <= 500 THEN 200
                     ELSE IF content.length > 500 THEN 100 ELSE 0
        by_requirement == IF rule.required /\ content.length > 0 THEN 200 ELSE 0
        by_quality == IF content.length > 0 /\ ~content.isspace THEN 100 ELSE 0
        by_pattern == IF rule.rule_type = "css"
                         /\ rule.selector \in {"h1", "h2", "h3", "title"}
                      THEN 100 ELSE 0
    IN Clamp(base + by_length + by_requirement + by_quality + by_pattern)

\* one content scored against one rule
CalculateConfidence(content, rule) ==
    /\ ~confidence.called
    /\ confidence' = [called |-> TRUE, content |-> content, rule |-> rule,
                      score |-> calculate_confidence_score(content, rule)]
    /\ UNCHANGED <<crawlVars, accessVars, reviewVars, exportVars, audit, search, fts, browser, extraction>>

\* ------------------------------------------------- the browser session
\* leaving the with block on a failure without releasing the lock
Leave_holding(b, t, result) ==
    [b EXCEPT !.lock = IF result.success THEN None ELSE @,
              !.pc[t] = "done", !.result[t] = result]

\* _scrape_with_selenium returns or its exception is caught: the with block
\* is left, which releases the lock, and the caller gets the result
Leave(b, t, result) ==
    [b EXCEPT !.lock = None, !.pc[t] = "done", !.result[t] = result]

\* _init_selenium: nothing to do with a driver in place; otherwise a Chrome
\* session is started and kept, or, when starting or configuring it fails,
\* the driver stays None
init_selenium(b, started) ==
    IF b.driver # 0 THEN b
    ELSE IF started THEN [b EXCEPT !.driver = b.created + 1, !.created = @ + 1]
    ELSE b

\* a thread calls _scrape_with_selenium and reaches the with statement
SeleniumCall(t) ==
    /\ browser.pc[t] = "idle"
    /\ browser.calls < MaxFetches
    /\ browser' = [browser EXCEPT !.pc[t] = "acquire", !.calls = @ + 1,
                                  !.result[t] = NoFetch]
    /\ UNCHANGED <<crawlVars, accessVars, reviewVars, exportVars, audit, search, fts, confidence, extraction>>

\* with self._lock: the thread waits until the lock is free and takes it
SeleniumAcquire(t) ==
    /\ browser.pc[t] = "acquire"
    /\ browser.lock = None
    /\ browser' = [browser EXCEPT !.lock = t, !.pc[t] = "init"]
    /\ UNCHANGED <<crawlVars, accessVars, reviewVars, exportVars, audit, search, fts, confidence, extraction>>

\* the lazy initialisation, and the early return when no driver is there
SeleniumInit(t, started) ==
    LET b == init_selenium(browser, started)
    IN /\ browser.pc[t] = "init"
       /\ browser' =
            IF b.driver = 0
            THEN Leave(b, t, [NoFetch EXCEPT !.error = "Selenium WebDriver not available"])
            ELSE [b EXCEPT !.pc[t] = "navigate"]
       /\ UNCHANGED <<crawlVars, accessVars, reviewVars, exportVars, audit, search, fts, confidence, extraction>>

\* driver.get(url) and the wait for the body element
SeleniumNavigate(t, raises) ==
    /\ browser.pc[t] = "navigate"
    /\ browser' =
         IF raises
         THEN Leave(browser, t, [NoFetch EXCEPT !.error = "navigation_error"])
         ELSE [browser EXCEPT !.pc[t] = "read"]
    /\ UNCHANGED <<crawlVars, accessVars, reviewVars, exportVars, audit, search, fts, confidence, extraction>>

\* driver.page_source and the success result
SeleniumRead(t, raises, html) ==
    /\ browser.pc[t] = "read"
    /\ browser' =
         IF raises
         THEN Leave(browser, t, [NoFetch EXCEPT !.error = "read_error"])
         ELSE Leave(browser, t, [success |-> TRUE, error |-> None, html |-> html])
    /\ UNCHANGED <<crawlVars, accessVars, reviewVars, exportVars, audit, search, fts, confidence, extraction>>

\* the caller takes the result; the thread is free for its next fetch
SeleniumReturn(t) ==
    /\ browser.pc[t] = "done"
    /\ browser' = [browser EXCEPT !.pc[t] = "idle"]
    /\ UNCHANGED <<crawlVars, accessVars, reviewVars, exportVars, audit, search, fts, confidence, extraction>>

\* one step of a thread inside _scrape_with_selenium
SeleniumStep(t) ==
    \/ SeleniumAcquire(t)
    \/ \E started \in BOOLEAN : SeleniumInit(t, started)
    \/ \E raises \in BOOLEAN : SeleniumNavigate(t, raises)
    \/ \E raises \in BOOLEAN, html \in HtmlDocs : SeleniumRead(t, raises, html)

\* ---------------------------------------------------- the extraction
RECURSIVE ByPriority(_, _)
\* order_by(ExtractionRule.priority.desc()) on a set of rule ids
ByPriority(rows, ids) ==
    IF ids = {} THEN <<>>
    ELSE LET top == CHOOSE r \in ids : \A o \in ids : rows[r].priority >= rows[o].priority
         IN <<top>> \o ByPriority(rows, ids \ {top})

\* the rules of an extraction: the named rule, whatever its project and
\* state, or the active rules of the page's project by descending priority;
\* <<0>> is the list [None] of a named rule that does not exist
resolve_rules(e, page_id, rule_id) ==
    IF rule_id # 0
    THEN IF rule_id \in DOMAIN e.rules THEN <<rule_id>> ELSE <<0>>
    ELSE ByPriority(e.rules,
            { r \in DOMAIN e.rules : /\ e.rules[r].project_id = e.page_project[page_id]
                                     /\ e.rules[r].is_active })

\* _apply_extraction_rule: one snippet per match of the rule on the page
apply_extraction_rule(page_id, rule_id, matches) ==
    [i \in 1..matches |->
        [page_id |-> page_id, extraction_rule_id |-> rule_id, position |-> i - 1,
         status |-> "pending"]]

RECURSIVE ExtractAll(_, _, _)
\* the loop over the rules: extracted_snippets.extend(snippets)
ExtractAll(page_id, rules, matches) ==
    IF rules = <<>> THEN <<>>
    ELSE apply_extraction_rule(page_id, Head(rules), matches)
            \o ExtractAll(page_id, Tail(rules), matches)

\* POST /api/content/extract, ContentService.extract_content_from_page
ExtractContentFromPage(identity, page_id, rule_id, matches, dbFails, auditFails) ==
    LET e == extraction
        rules == resolve_rules(e, page_id, rule_id)
        extracted == ExtractAll(page_id, rules, matches)
        s1 == SessWrite(Session(e.snippets), e.snippets \o extracted)
        s2 == IF dbFails THEN SessRollback(s1) ELSE SessCommit(s1)
        a == log_action(s2, audit, AuditRow(identity, "extract_content", "page", page_id),
                        auditFails)
        fail(message) == [NoExtractResult EXCEPT !.message = message]
    IN /\ e.calls < MaxExtracts
       /\ IF page_id \notin DOMAIN e.page_project
          THEN /\ extraction' = [e EXCEPT !.calls = @ + 1, !.result = fail("Page not found")]
               /\ UNCHANGED audit
          ELSE IF rules = <<0>>
          THEN /\ extraction' = [e EXCEPT !.calls = @ + 1,
                                          !.result = fail("Extraction rule not found")]
               /\ UNCHANGED audit
          ELSE IF rules = <<>>
          THEN /\ extraction' = [e EXCEPT !.calls = @ + 1,
                                          !.result = fail("No active extraction rules found")]
               /\ UNCHANGED audit
          ELSE IF dbFails
          THEN /\ extraction' = [e EXCEPT !.calls = @ + 1, !.snippets = s2.committed,
                                          !.result = fail("Content extraction failed")]
               /\ UNCHANGED audit
          ELSE /\ extraction' = [e EXCEPT !.calls = @ + 1, !.snippets = a.sess.committed,
                      !.result = [success |-> TRUE, message |-> "Extracted",
                                  snippets |-> extracted]]
               /\ audit' = a.log
       /\ UNCHANGED <<crawlVars, accessVars, reviewVars, exportVars, search, fts, confidence, browser>>

\* ------------------------------------------------ login and SQL: actions
LoginEmails == {"e2", "e4", "e9"}
\* the statements an administrator submits:
\*   select       SELECT * FROM projects
\*   update       UPDATE projects SET name = 's'
\*   with_delete  WITH t AS (SELECT 1) DELETE FROM projects
SqlArgs == {"select", "update", "with_delete"}

\* sql_lower.startswith('select') / sql_lower.startswith('with')
StartsWithSelect(sql) == sql = "select"
StartsWithWith(sql) == sql = "with_delete"

\* any(keyword in sql_lower for keyword in dangerous_keywords)
HasDangerousKeyword(sql) == sql \in {"update", "with_delete"}

\* len(sql_query)
QueryLength(sql) ==
    CASE sql = "select" -> 22 [] sql = "update" -> 30 [] sql = "with_delete" -> 41

\* the statement is not a query and holds one of the dangerous keywords
IsDangerous(sql) ==
    ~StartsWithSelect(sql) /\ ~StartsWithWith(sql) /\ HasDangerousKeyword(sql)

\* the projects table after the statement
SqlEffect(sql) ==
    CASE sql = "update" -> [p \in DOMAIN projects |-> [projects[p] EXCEPT !.name = "s"]]
      [] sql = "with_delete" -> <<>>
      [] OTHER -> projects

\* the details of the execute_sql audit row
SqlDetails(sql) ==
    [query_type |-> IF StartsWithSelect(sql) THEN "SELECT" ELSE "MODIFY",
     query_length |-> QueryLength(sql), updated_fields |-> {}]

\* the result of a failed authenticate_user: no user, no tokens
AuthFailure(message) ==
    [success |-> FALSE, message |-> message, user |-> 0, tokens |-> NoTokens,
     users |-> users]

\* AuthService.authenticate_user: the lookup by normalized e-mail, the
\* is_active check, then the password check; pwOk is check_password's answer
authenticate_user(email, pwOk) ==
    LET u == user_by_email(NormalizeEmail(email)) IN
    IF u = 0 THEN AuthFailure("Invalid email or password")
    ELSE IF ~users[u].is_active THEN AuthFailure("Account is deactivated")
    ELSE IF ~pwOk THEN AuthFailure("Invalid email or password")
    ELSE [success |-> TRUE, message |-> "Login successful", user |-> u,
          tokens |-> TokensFor(u),
          users |-> [users EXCEPT ![u].last_login = clock]]

\* POST /api/auth/login: AuthService.authenticate_user, then the audit row
Login(email, pwOk, auditFails) ==
    LET result == authenticate_user(email, pwOk)
        a == log_action(Session(result.users), audit,
                        IF result.success THEN AuditRow(result.user, "login", None, 0)
                        ELSE AuditRow(0, "login_failed", None, 0),
                        auditFails)
    IN /\ users' = a.sess.committed
       /\ audit' = a.log
       /\ resp' = IF a.raised
                  THEN [Response("login", 0, 0, 500, TRUE, FALSE)
                           EXCEPT !.message = "Login failed"]
                  ELSE [Response("login", result.user, 0,
                                 IF result.success THEN 200 ELSE 401,
                                 TRUE, result.success)
                           EXCEPT !.message = result.message,
                                  !.tokens = result.tokens]
       /\ UNCHANGED <<projects, collaborators>>
       /\ UNCHANGED nonAccessVars

\* e-mail addresses typed into register and update_profile
RegisterEmails == {"e2", "E3 ", " E5"}
ProfileEmails == {None, "e2", "E3 ", " E5"}
FirstNameArgs == {None, "b"}
\* JWT identities of update_profile: 9 has no User row
ProfileCallers == {2, 5, 9}

\* the id the database gives the next User row
NextUserId == Cardinality(DOMAIN users) + 1

\* the result of a register_user / update_user_profile call
ProfileResult(success, message, uid, sess) ==
    [success |-> success, message |-> message, user |-> uid, sess |-> sess]

\* AuthService.register_user: the uniqueness check on the normalized
\* e-mail, then the new active row
register_user(email) ==
    LET existing_user == user_by_email(NormalizeEmail(email))
        user == [email |-> NormalizeEmail(email), role |-> "user", is_active |-> TRUE,
                 last_login |-> 0, first_name |-> "a",
       password_hash |-> "h"]
    IN IF existing_user # 0
       THEN ProfileResult(FALSE, "Email already registered", 0, Session(users))
       ELSE ProfileResult(TRUE, "User registered successfully", NextUserId,
                          SessCommit(SessWrite(Session(users),
                                               users @@ (NextUserId :> user))))

\* POST /api/auth/register
Register(email, auditFails) ==
    LET result == register_user(email)
        a == IF result.success
             THEN log_action(result.sess, audit,
                             AuditRow(result.user, "register", None, 0), auditFails)
             ELSE [sess |-> result.sess, log |-> audit, raised |-> FALSE]
    IN /\ users' = a.sess.committed
       /\ audit' = a.log
       /\ resp' = IF a.raised
                  THEN [Response("register", 0, 0, 500, TRUE, FALSE)
                           EXCEPT !.message = "Registration failed"]
                  ELSE [Response("register", result.user, 0,
                                 IF result.success THEN 201 ELSE 400,
                                 TRUE, result.success)
                           EXCEPT !.message = result.message]
       /\ UNCHANGED <<projects, collaborators>>
       /\ UNCHANGED nonAccessVars

\* the profile update with its uniqueness check left out
email_of_other_user_unchecked(rows, value, user_id) == FALSE

\* User.query.filter_by(email=value).filter(User.id != user_id).first()
email_of_other_user(rows, value, user_id) ==
    \E u \in DOMAIN rows : u # user_id /\ rows[u].email = value

\* AuthService.update_user_profile with first_name and email in that order
\* (None: the field is absent); a rejected e-mail returns with the earlier
\* setattr still pending in the session
update_user_profile(user_id, first_name, email) ==
    LET s0 == Session(users)
        s1 == IF first_name # None
              THEN SessWrite(s0, [users EXCEPT ![user_id].first_name = first_name])
              ELSE s0
        value == NormalizeEmail(email)
    IN IF ~user_exists(user_id)
       THEN ProfileResult(FALSE, "User not found", 0, s0)
       ELSE IF email # None /\ email_of_other_user(s1.pending, value, user_id)
       THEN ProfileResult(FALSE, "Email already in use", 0, s1)
       ELSE ProfileResult(TRUE, "Profile updated successfully", user_id,
               SessCommit(IF email # None
                          THEN SessWrite(s1, [s1.pending EXCEPT ![user_id].email = value])
                          ELSE s1))

\* PUT /api/auth/profile: the request's session ends with the request, so
\* what a rejected update left pending is dropped
UpdateProfile(identity, first_name, email, auditFails) ==
    LET result == update_user_profile(identity, first_name, email)
        a == IF result.success
             THEN log_action(result.sess, audit,
                             AuditRow(identity, "update_profile", None, 0), auditFails)
             ELSE [sess |-> result.sess, log |-> audit, raised |-> FALSE]
    IN /\ (first_name # None \/ email # None)
       /\ users' = a.sess.committed
       /\ audit' = a.log
       /\ resp' = IF a.raised
                  THEN [Response("update_profile", identity, 0, 500, TRUE, FALSE)
                           EXCEPT !.message = "Failed to update profile"]
                  ELSE [Response("update_profile", identity, 0,
                                 IF result.success THEN 200 ELSE 400,
                                 TRUE, result.success)
                           EXCEPT !.message = result.message]
       /\ UNCHANGED <<projects, collaborators>>
       /\ UNCHANGED nonAccessVars

\* the fields update_user_profile would also set if role and is_active
\* were on its list
AllowedFields_with_role == {"first_name", "last_name", "email", "role", "is_active"}

\* allowed_fields of update_user_profile
AllowedFields == {"first_name", "last_name", "email"}

\* request bodies of PUT /api/auth/profile: keys holds the fields present
BodyKeySets ==
    { {}, {"first_name"}, {"email"}, {"role"}, {"email", "role", "is_active"},
      {"first_name", "role", "is_active", "password_hash"}, {"first_name", "user_id"} }
Bodies ==
    { b \in [keys : BodyKeySets, first_name : {"b"}, email : {"e2", " E5"},
             role : {"admin"}, is_active : {TRUE}, password_hash : {"x"},
             user_id : {1}] :
        "email" \notin b.keys => b.email = "e2" }
BodyCallers == {2, 4, 5}

\* the keyword argument of a field as update_user_profile treats it: None
\* when absent from the body or not an allowed field
Kwarg(body, field) ==
    IF field \in body.keys /\ field \in AllowedFields THEN body[field] ELSE None

\* setattr(user, field, value) for the allowed fields other than first_name
\* and email, which update_user_profile has dealt with
SetAllowed(row, body) ==
    [f \in DOMAIN row |->
        IF f \in body.keys /\ f \in AllowedFields /\ f \notin {"first_name", "email"}
        THEN body[f] ELSE row[f]]

\* PUT /api/auth/profile with an arbitrary JSON object as body: an empty
\* body is refused; a key user_id collides with the positional argument of
\* update_user_profile(user_id, **data) and ends in the route's except
\* branch; the audit row lists the keys of the body
UpdateProfileBody(identity, body, auditFails) ==
    LET result == update_user_profile(identity, Kwarg(body, "first_name"),
                                      Kwarg(body, "email"))
        sess == IF result.success
                THEN SessCommit(SessWrite(result.sess,
                        [result.sess.pending EXCEPT
                            ![identity] = SetAllowed(@, body)]))
                ELSE result.sess
        a == IF result.success
             THEN log_action(sess, audit,
                             [AuditRow(identity, "update_profile", None, 0)
                                 EXCEPT !.details.updated_fields = body.keys],
                             auditFails)
             ELSE [sess |-> sess, log |-> audit, raised |-> FALSE]
    IN IF body.keys = {}
       THEN /\ resp' = [Response("update_profile", identity, 0, 400, FALSE, FALSE)
                          EXCEPT !.message = "No data provided"]
            /\ UNCHANGED <<users, projects, collaborators, audit>>
            /\ UNCHANGED nonAccessVars
       ELSE IF "user_id" \in body.keys
       THEN /\ resp' = [Response("update_profile", identity, 0, 500, FALSE, FALSE)
                          EXCEPT !.message = "Failed to update profile"]
            /\ UNCHANGED <<users, projects, collaborators, audit>>
            /\ UNCHANGED nonAccessVars
       ELSE /\ users' = a.sess.committed
            /\ audit' = a.log
            /\ resp' = [Response("update_profile", identity, 0,
                                 IF result.success THEN 200 ELSE 400,
                                 TRUE, result.success)
                          EXCEPT !.message = result.message]
            /\ UNCHANGED <<projects, collaborators>>
            /\ UNCHANGED nonAccessVars

\* POST /api/admin/sql/execute
ExecuteSql(identity, sql, confirm, sqlFails, auditFails) ==
    LET g == admin_required(identity) IN
    /\ IF g # 0
       THEN /\ resp' = Response("execute_sql", identity, 0, g, FALSE, FALSE)
            /\ UNCHANGED <<projects, audit>>
       ELSE IF IsDangerous(sql) /\ ~confirm
       THEN /\ resp' = [Response("execute_sql", identity, 0, 400, TRUE, FALSE)
                           EXCEPT !.message = "requires_confirmation"]
            /\ UNCHANGED <<projects, audit>>
       ELSE IF sqlFails
       THEN /\ resp' = [Response("execute_sql", identity, 0, 400, TRUE, FALSE)
                           EXCEPT !.message = "SQL execution failed"]
            /\ projects' = SessRollback(SessWrite(Session(projects),
                                                  SqlEffect(sql))).committed
            /\ UNCHANGED audit
       ELSE LET s0 == SessWrite(Session(projects), SqlEffect(sql))
                s1 == IF StartsWithSelect(sql) THEN s0 ELSE SessCommit(s0)
                a == log_action(s1, audit,
                                [AuditRow(identity, "execute_sql", None, 0)
                                    EXCEPT !.details = SqlDetails(sql)],
                                auditFails)
            IN /\ projects' = a.sess.committed
               /\ audit' = a.log
               /\ resp' = IF a.raised
                          THEN [Response("execute_sql", identity, 0, 400, TRUE, FALSE)
                                   EXCEPT !.message = "SQL execution failed"]
                          ELSE Response("execute_sql", identity, 0, 200, TRUE, TRUE)
    /\ UNCHANGED <<users, collaborators>>
    /\ UNCHANGED nonAccessVars

\* --------------------------------------------------- crawling: the system
vars == <<crawlVars, accessVars, reviewVars, exportVars, serviceVars, audit>>

WebsiteRows ==
    { [crawl_depth |-> d, follow_external_links |-> f, status |-> "active",
       total_pages |-> 0, last_crawled |-> FALSE, last_error |-> None] :
      d \in 0..MaxDepth, f \in BOOLEAN }

InitCrawl ==
    /\ websites \in [WebsiteIds -> WebsiteRows]
    /\ pages = <<>>
    /\ aiRuns = 0
    /\ aiAvailable \in BOOLEAN
    /\ req = [r \in Requests |-> IdleReq]
    /\ served = 0
    /\ audit = <<>>
    /\ AccessIdle

\* no other request is being handled
Quiet(r) == \A o \in Requests \ {r} : req[o].pc \in {"idle", "done"}

StepCrawl(r) ==
    \/ CrawlPop(r)
    \/ \E auditFails \in BOOLEAN : CrawlFinish(r, auditFails)
    \/ \E outcome \in FetchOutcomes, html \in HtmlDocs : ScrapeFetch(r, outcome, html)
    \/ \E dbFails \in BOOLEAN : ScrapeInsert(r, dbFails)
    \/ \E dbFails \in BOOLEAN : ScrapeStats(r, dbFails)
    \/ \E order \in LinkOrders : CrawlRecord(r, order)

\* run_scraping hands the result back as the response; the handler is over
Respond(r) ==
    /\ req[r].pc = "done"
    /\ req' = [req EXCEPT ![r] = IdleReq]
    /\ UNCHANGED <<websites, pages, aiRuns, aiAvailable, served, audit>>
    /\ UNCHANGED nonCrawlVars

\* single-page requests served one after the other, on a website whose pages
\* answer with one of three documents
ScrapeUrls == {"u0", "u1"}
ScrapeDocs == {"d0", "d1", "d2"}

NextScrapeSeq ==
    \/ /\ served < MaxRequests
       /\ \E wid \in RequestedWebsiteIds, url \in ScrapeUrls : StartSinglePage("r1", wid, url)
    \/ \E outcome \in FetchOutcomes, html \in ScrapeDocs : ScrapeFetch("r1", outcome, html)
    \/ \E dbFails \in BOOLEAN : ScrapeInsert("r1", dbFails)
    \/ \E dbFails \in BOOLEAN : ScrapeStats("r1", dbFails)
    \/ Respond("r1")

SpecScrapeSeq == InitCrawl /\ [][NextScrapeSeq]_vars

\* one crawl request
NextCrawlOne ==
    \/ \E wid \in RequestedWebsiteIds, max_pages \in 0..MaxBudget, auditFails \in BOOLEAN :
            StartCrawl("r1", wid, max_pages, auditFails)
    \/ StepCrawl("r1")

SpecCrawlOne == InitCrawl /\ [][NextCrawlOne]_vars

\* ----------------------------------------------------- access: the system
\* no website is registered and no scrape is under way
CrawlIdle ==
    /\ websites = <<>>
    /\ pages = <<>>
    /\ aiRuns = 0
    /\ aiAvailable = FALSE
    /\ req = [r \in Requests |-> IdleReq]
    /\ served = 0

\* one project, owned by user 2, and no collaborators yet
InitAccess ==
    /\ users = UserRows
    /\ projects = (1 :> [owner_id |-> 2, name |-> "p"])
    /\ collaborators = <<>>
    /\ resp = NoResp
    /\ audit = <<>>
    /\ CrawlIdle
    /\ ReviewIdle
    /\ ExportIdle
    /\ ServicesIdle

\* the audit store is unavailable throughout: log_action takes its failure
\* branch, which leaves the project tables as the operation committed them
NextAccess ==
    \/ \E i \in Identities, p \in ProjectIdArgs : GetProject(i, p)
    \/ \E i \in Identities, p \in ProjectIds, n \in NameArgs :
          UpdateProject(i, p, n, TRUE)
    \/ \E i \in Identities, p \in ProjectIds : DeleteProject(i, p, TRUE)
    \/ \E i \in Callers, p \in ProjectIds, e \in EmailArgs, ro \in Roles :
          /\ Len(collaborators) < MaxCollab
          /\ AddCollaborator(i, p, e, ro, TRUE)
    \/ \E i \in Callers, c \in DOMAIN UserRows :
          RemoveCollaborator(i, 1, c, TRUE)
    \/ \E i \in Identities : AdminEndpoint(i)

SpecAccess == InitAccess /\ [][NextAccess]_vars

\* ----------------------------------------------------- review: the system
\* user 3 is the project's viewer or its collaborator
CollaboratorSetups ==
    { <<[project_id |-> 1, user_id |-> 3, role |-> "viewer"]>>,
      <<[project_id |-> 1, user_id |-> 3, role |-> "collaborator"]>> }

InitReview ==
    /\ users = UserRows
    /\ projects = (1 :> [owner_id |-> 2, name |-> "p"])
    /\ collaborators \in CollaboratorSetups
    /\ resp = NoResp
    /\ audit = <<>>
    /\ CrawlIdle
    /\ ReviewIdle
    /\ ExportIdle
    /\ ServicesIdle

NextReview ==
    \/ /\ Len(snippets) < MaxSnippets
       /\ ExtractContent(1)
    \/ \E i \in Reviewers, sid \in SnippetIdArgs, st \in StatusArgs, n \in NotesArgs :
          UpdateSnippetStatus(i, sid, st, n, TRUE)
    \/ Tick

SpecReview == InitReview /\ [][NextReview]_vars

\* ----------------------------------------------------- export: the system
InitExport ==
    /\ users = UserRows
    /\ projects = <<>>
    /\ collaborators = <<>>
    /\ resp = NoResp
    /\ audit = <<>>
    /\ CrawlIdle
    /\ ReviewIdle
    /\ ExportIdle
    /\ ServicesIdle

StuckSets == SUBSET { FilePath(f) : f \in FileNames }

\* an audit write may fail at any time, and fails once the log holds
\* MaxAudit rows
AuditOutcomes == IF Len(audit) < MaxAudit THEN BOOLEAN ELSE {TRUE}

NextExport ==
    \/ \E i \in Creators, t \in TypeArgs, f \in FileNames :
          /\ Len(exports) < MaxExports
          /\ CreateExport(i, t, f)
    \/ ProcessStart
    \/ \E ok \in BOOLEAN, af \in AuditOutcomes : ProcessFinish(ok, af)
    \/ \E i \in Downloaders, e \in ExportIdArgs, af \in AuditOutcomes :
          DownloadExport(i, e, af)
    \/ \E stuck \in StuckSets : CleanupExpiredExports(stuck)
    \/ \E f \in FileNames : FileLost(FilePath(f))
    \/ Tick

SpecExport == InitExport /\ [][NextExport]_vars

\* ------------------------------------------------------ audit: the system
\* a project with a viewer, a pending snippet and a registered website, and
\* nothing requested yet
InitAudit ==
    /\ users = UserRows
    /\ projects = (1 :> [owner_id |-> 2, name |-> "p"])
    /\ collaborators = <<[project_id |-> 1, user_id |-> 3, role |-> "viewer"]>>
    /\ resp = NoResp
    /\ snippets = <<NewSnippet(1)>>
    /\ clock = 1
    /\ ExportIdle
    /\ ServicesIdle
    /\ websites \in [WebsiteIds -> WebsiteRows]
    /\ pages = <<>>
    /\ aiRuns = 0
    /\ aiAvailable = FALSE
    /\ req = [r \in Requests |-> IdleReq]
    /\ served = 0
    /\ audit = <<>>

\* no operation has been requested yet
Fresh == resp = NoResp /\ job = NoJob /\ \A r \in Requests : req[r].pc = "idle"

AuditedCallers == {1, 2}

\* one audited operation, the audit write succeeding or failing
NextAudit ==
    \/ /\ Fresh
       /\ \E af \in BOOLEAN :
             \/ \E e \in LoginEmails, pw \in BOOLEAN : Login(e, pw, af)
             \/ \E i \in AuditedCallers, n \in NameArgs : UpdateProject(i, 1, n, af)
             \/ \E i \in AuditedCallers : DeleteProject(i, 1, af)
             \/ \E i \in AuditedCallers, ro \in Roles : AddCollaborator(i, 1, "e1", ro, af)
             \/ \E i \in AuditedCallers : RemoveCollaborator(i, 1, 3, af)
             \/ \E i \in AuditedCallers, st \in StatusArgs, n \in NotesArgs :
                   UpdateSnippetStatus(i, 1, st, n, af)
             \/ \E i \in AuditedCallers, q \in SqlArgs, c \in BOOLEAN, sf \in BOOLEAN :
                   ExecuteSql(i, q, c, sf, af)
             \/ \E max_pages \in 0..MaxBudget : StartCrawl("r1", 1, max_pages, af)
    \/ /\ Fresh
       /\ \E i \in Creators, t \in TypeArgs, f \in FileNames : CreateExport(i, t, f)
    \/ ProcessStart
    \/ \E ok \in BOOLEAN, af \in BOOLEAN : ProcessFinish(ok, af)
    \/ StepCrawl("r1")

SpecAudit == InitAudit /\ [][NextAudit]_vars

\* one crawl request, and stop requests for the website at any moment
NextStop ==
    \/ NextCrawlOne
    \/ \E wid \in RequestedWebsiteIds : StopScraping(CallerId, wid)

SpecStop == InitCrawl /\ [][NextStop]_vars

\* the administrator console: statements submitted one after the other,
\* between renamings of project 1 by its owner
SqlCallers == {1, 2, 4, 5}

NextSql ==
    \/ \E i \in SqlCallers, q \in SqlArgs, c \in BOOLEAN, sf \in BOOLEAN,
          af \in AuditOutcomes :
          ExecuteSql(i, q, c, sf, af)
    \/ \E n \in NameArgs, af \in AuditOutcomes : UpdateProject(2, 1, n, af)

SpecSql == InitAccess /\ [][NextSql]_vars

\* one search, in any state of the web, the local files and the API keys
NextSearch == \E env \in SearchEnvs : ComprehensiveSearch(env)

SpecSearch == InitAccess /\ [][NextSearch]_vars

\* a database provisioned by either command, then page writes
NextFts ==
    \/ CreateTables
    \/ SetupDatabase
    \/ \E t \in PageTitles, x \in PageTexts, u \in PageUrlArgs : PageInsert(t, x, u)
    \/ \E id \in PageIdArgs, t \in PageTitles : PageUpdate(id, t)
    \/ \E id \in PageIdArgs : PageDelete(id)

SpecFts == InitAccess /\ [][NextFts]_vars

\* additions and removals of collaborators alone
NextCollab ==
    \/ \E i \in Callers, p \in ProjectIds, e \in EmailArgs, ro \in Roles :
          /\ Len(collaborators) < MaxCollab
          /\ AddCollaborator(i, p, e, ro, TRUE)
    \/ \E i \in Callers, c \in DOMAIN UserRows :
          RemoveCollaborator(i, 1, c, TRUE)

SpecCollab == InitAccess /\ [][NextCollab]_vars

\* any content scored against any rule
NextConfidence == \E c \in Contents, r \in Rules : CalculateConfidence(c, r)

SpecConfidence == InitAccess /\ [][NextConfidence]_vars

\* one crawl of a website whose links are followed MaxSiteDepth levels deep
InitDeepCrawl ==
    /\ websites = [w \in WebsiteIds |->
                      [crawl_depth |-> MaxSiteDepth, follow_external_links |-> FALSE,
                       status |-> "active", total_pages |-> 0, last_crawled |-> FALSE,
                       last_error |-> None]]
    /\ pages = <<>>
    /\ aiRuns = 0
    /\ aiAvailable = FALSE
    /\ req = [r \in Requests |-> IdleReq]
    /\ served = 0
    /\ audit = <<>>
    /\ AccessIdle

NextDeepCrawl ==
    \/ \E max_pages \in {0, MaxBudget} : StartCrawl("r1", 1, max_pages, TRUE)
    \/ StepCrawl("r1")

SpecDeepCrawl == InitDeepCrawl /\ [][NextDeepCrawl]_vars

\* single-page requests for the seed URL of website 1, served concurrently,
\* each by its own ScrapingService: their steps interleave freely
RaceDocs == {"d0", "d1"}

NextScrapeRace ==
    \E r \in Requests :
       \/ /\ served < MaxRequests
          /\ StartSinglePage(r, 1, SeedUrl)
       \/ \E outcome \in FetchOutcomes, html \in RaceDocs : ScrapeFetch(r, outcome, html)
       \/ \E dbFails \in BOOLEAN : ScrapeInsert(r, dbFails)
       \/ \E dbFails \in BOOLEAN : ScrapeStats(r, dbFails)
       \/ Respond(r)

SpecScrapeRace == InitDeepCrawl /\ [][NextScrapeRace]_vars

\* the same crawl, its handler running on until it returns: every fetch
\* returns and every statement of the handler is eventually executed
SpecCrawlLive == SpecDeepCrawl /\ WF_vars(StepCrawl("r1"))

\* one crawl of website 1 and, at any moment of it, the website paused
NextPause ==
    \/ \E max_pages \in {0, MaxBudget} : StartCrawl("r1", 1, max_pages, FALSE)
    \/ StepCrawl("r1")
    \/ \E auditFails \in BOOLEAN :
          /\ websites[1].status = "active"
          /\ stop_crawl(1, auditFails)

SpecPause == InitDeepCrawl /\ [][NextPause]_vars

\* browser-based fetches of several threads on one ScrapingService
NextBrowser ==
    \E t \in Threads : SeleniumCall(t) \/ SeleniumStep(t) \/ SeleniumReturn(t)

SpecBrowser == InitAccess /\ [][NextBrowser]_vars

\* the accounts alone: logins, registrations and profile updates on the
\* four seeded users, the audit store being unavailable throughout
InitAuth ==
    /\ AccessIdle
    /\ CrawlIdle
    /\ audit = <<>>

NextAuth ==
    \/ \E e \in LoginEmails, pwOk \in BOOLEAN : Login(e, pwOk, TRUE)
    \/ \E e \in RegisterEmails :
          /\ Cardinality(DOMAIN users) < MaxUsers
          /\ Register(e, TRUE)
    \/ \E i \in ProfileCallers, fn \in FirstNameArgs, e \in ProfileEmails :
          UpdateProfile(i, fn, e, TRUE)
    \/ Tick

SpecAuth == InitAuth /\ [][NextAuth]_vars

\* extraction requests for the two pages, with and without a named rule
ExtractPageArgs == {1, 2, 9}
ExtractRuleArgs == {0, 1, 3, 9}

NextExtract ==
    \E page_id \in ExtractPageArgs, rule_id \in ExtractRuleArgs, matches \in 0..MaxMatches,
       dbFails \in BOOLEAN, auditFails \in AuditOutcomes :
          ExtractContentFromPage(2, page_id, rule_id, matches, dbFails, auditFails)

SpecExtract == InitAccess /\ [][NextExtract]_vars

\* logins, registrations and profile updates with arbitrary bodies; the
\* audit store takes the first row and is unavailable from then on
NextProfile ==
    \/ \E e \in LoginEmails, pwOk \in BOOLEAN : Login(e, pwOk, TRUE)
    \/ \E e \in RegisterEmails :
          /\ Cardinality(DOMAIN users) < MaxUsers
          /\ Register(e, TRUE)
    \/ \E i \in BodyCallers, body \in Bodies, auditFails \in BOOLEAN :
          /\ (audit = <<>> \/ auditFails)
          /\ UpdateProfileBody(i, body, auditFails)

SpecProfile == InitAuth /\ [][NextProfile]_vars

\* ================================================================ claims
\* the stored rows of (website_id, url) whose digest is h
RowsWith(rows, wid, url, h) ==
    { i \in 1..Len(rows) :
        rows[i].website_id = wid /\ rows[i].url = url /\ rows[i].hash_content = h }

RowsOf(rows, wid, url) ==
    { i \in 1..Len(rows) : rows[i].website_id = wid /\ rows[i].url = url }

\* what one step of a request serving scrape_single_page may do to the store
C1_Step ==
    /\ \A r \in Requests :
        LET q == req[r]
            n == req'[r]
            same == RowsWith(pages, q.website_id, q.url, sha256(n.html))
        IN q.pc = "fetch" =>
            /\ pages' = pages /\ aiRuns' = aiRuns
            /\ n.pc = "insert" => same = {}
            /\ (n.pc # "fetch" /\ n.html # None /\ same # {}) =>
                 /\ n.pc = AfterScrape(q.kind)
                 /\ n.result.success
                 /\ n.result.message = "Page content unchanged"
                 /\ n.result.page \in same
            /\ (n.pc # "fetch" /\ n.result.success) => n.result.page \in same
    /\ pages' # pages =>
         /\ Len(pages') = Len(pages) + 1
         /\ SubSeq(pages', 1, Len(pages)) = pages
         /\ LET row == pages'[Len(pages')]
            IN RowsWith(pages, row.website_id, row.url, row.hash_content) = {}
    /\ aiRuns' # aiRuns => \E r \in Requests : req[r].pc = "insert"

C1_OneRowPerDigest ==
    \A i, j \in 1..Len(pages) :
        ( /\ pages[i].website_id = pages[j].website_id
          /\ pages[i].url = pages[j].url
          /\ pages[i].hash_content = pages[j].hash_content ) => i = j

\* C1: when requests are served one after the other, a scrape whose fetched
\* document has the digest of a row stored for the same (website_id, url)
\* returns that row, adds no row and runs no AI analysis; a row is added only
\* when no stored row of that (website_id, url) has the fetched digest, so
\* there is never more than one row per (website_id, url, digest).
C1_ChangeDetection == [][C1_Step]_vars /\ []C1_OneRowPerDigest

\* the same URL scraped twice with the same document: one row, one analysis,
\* and the second call answered with the stored row
C1_Witness ==
    /\ req["r1"].pc = "done"
    /\ req["r1"].result.message = "Page content unchanged"
    /\ served = 2
    /\ Len(pages) = 1
    /\ req["r1"].result.page = 1
    /\ pages[1].url = req["r1"].url
    /\ pages[1].raw_html = req["r1"].html
    /\ aiRuns = 1

\* the depths a crawl works at never exceed the website's crawl_depth
C2_DepthBounded ==
    \A r \in Requests :
        LET q == req[r]
        IN q.kind = "crawl" /\ q.website_id \in DOMAIN websites =>
            LET cd == websites[q.website_id].crawl_depth
            IN /\ q.pc \in {"fetch", "insert", "stats", "scraped"} => q.depth <= cd
               /\ \A i \in 1..Len(q.queue) : q.queue[i].depth <= cd
               /\ \A i \in 1..Len(pages) :
                    pages[i].website_id = q.website_id => pages[i].depth <= cd

\* links are enqueued one level below the page they were found on, and only
\* from a successfully scraped page above the website's crawl_depth
C2_Step ==
    \A r \in Requests :
        LET q == req[r]
            n == req'[r]
        IN /\ (q.pc = "scraped" /\ n.pc = "loop") =>
                /\ Len(n.queue) >= Len(q.queue)
                /\ SubSeq(n.queue, 1, Len(q.queue)) = q.queue
                /\ \A i \in (Len(q.queue) + 1)..Len(n.queue) :
                     /\ q.result.success
                     /\ q.depth < websites[q.website_id].crawl_depth
                     /\ n.queue[i].depth = q.depth + 1
           /\ (q.kind = "crawl" /\ q.pc \notin {"idle", "scraped"}) =>
                Len(n.queue) <= Len(q.queue)

\* C2: no URL is scraped at a depth greater than the website's crawl_depth,
\* and links found on a successfully scraped page at depth d are enqueued, at
\* depth d+1, only when d < crawl_depth.
C2_DepthBoundary == []C2_DepthBounded /\ [][C2_Step]_vars

\* crawl_depth = 1: u1, found on the seed page, was scraped at depth 1; its
\* page links to further URLs, and none of them was enqueued
C2_Witness ==
    LET q == req["r1"]
    IN /\ q.kind = "crawl"
       /\ q.pc = "loop"
       /\ websites[1].crawl_depth = 1
       /\ q.depth = 1
       /\ q.url = "u1"
       /\ q.result.success
       /\ extract_links(q.result.raw_html, q.url, websites[1].follow_external_links)
            \ q.crawled_urls # {}
       /\ q.queue = <<>>
       /\ \E i \in 1..Len(pages) : pages[i].url = "u1" /\ pages[i].depth = 1


\* ------------------------------------------------------------ access claims
HasCollaboratorRow(uid, pid) ==
    \E i \in 1..Len(collaborators) :
        collaborators[i].project_id = pid /\ collaborators[i].user_id = uid

IsAdmin(uid) == user_exists(uid) /\ users[uid].role = "admin"
IsOwner(uid, pid) == pid \in DOMAIN projects /\ projects[pid].owner_id = uid
Unrelated(uid, pid) ==
    ~IsAdmin(uid) /\ ~IsOwner(uid, pid) /\ ~HasCollaboratorRow(uid, pid)

GuardedOps == {"get_project", "update_project", "delete_project", "add_collaborator"}

C3_Grant ==
    \A u \in DOMAIN users, p \in DOMAIN projects :
        can_access_project(u, p)
            <=> (IsAdmin(u) \/ IsOwner(u, p) \/ HasCollaboratorRow(u, p))

C3_Guard ==
    (/\ resp.op \in GuardedOps
     /\ get_user_by_id(resp.user) # 0
     /\ resp.resource \in DOMAIN projects)
    => /\ Unrelated(resp.user, resp.resource) => (resp.code = 403 /\ ~resp.ran)
       /\ ~Unrelated(resp.user, resp.resource) => resp.ran

\* C3: can_access_project grants access exactly to an admin, the project's
\* owner and the holders of a collaborator row of any role; a request of an
\* unrelated non-admin user that reaches the project-access guard is answered
\* 403 and the handler does not run, while for a related user the handler runs
C3_AccessControl == C3_Grant /\ C3_Guard

\* user 3, unrelated to project 1 while the admin is a collaborator on it, was
\* turned away by the guard
C3_Witness ==
    /\ resp.op = "update_project" /\ resp.user = 3 /\ resp.resource = 1
    /\ resp.code = 403 /\ ~resp.ran
    /\ HasCollaboratorRow(1, 1) /\ ~HasCollaboratorRow(3, 1)

RoleRules(u, p) ==
    /\ get_collaborator_role(p, u) = "viewer"
          => /\ can_access_project(u, p)
             /\ ~can_edit_project(u, p)
             /\ ~can_delete_project(u, p)
    /\ get_collaborator_role(p, u) = "collaborator"
          => /\ can_edit_project(u, p)
             /\ ~can_delete_project(u, p)

\* C4 as stated: whoever is stored as 'viewer' can access but neither update
\* nor delete, and whoever is stored as 'collaborator' can update but not
\* delete the project
C4_AsStated ==
    \A u \in DOMAIN users, p \in DOMAIN projects : RoleRules(u, p)

C4_Roles ==
    \A u \in DOMAIN users, p \in DOMAIN projects :
        (~IsAdmin(u) /\ ~IsOwner(u, p)) => RoleRules(u, p)

C4_Step ==
    /\ (resp'.op = "delete_project" /\ resp'.success)
          => /\ resp'.resource \in DOMAIN projects
             /\ IsAdmin(resp'.user) \/ IsOwner(resp'.user, resp'.resource)
             /\ resp'.resource \notin DOMAIN projects'
    /\ (resp'.op = "update_project" /\ resp'.success)
          => /\ resp'.resource \in DOMAIN projects
             /\ can_edit_project(resp'.user, resp'.resource)
    /\ (resp'.op \in {"update_project", "delete_project"} /\ ~resp'.success)
          => (projects' = projects /\ collaborators' = collaborators)
    /\ (resp'.op = "update_project" /\ resp'.resource \in DOMAIN projects
        /\ get_user_by_id(resp'.user) # 0
        /\ ~IsAdmin(resp'.user) /\ ~IsOwner(resp'.user, resp'.resource)
        /\ get_collaborator_role(resp'.resource, resp'.user) = "viewer")
          => (resp'.ran /\ ~resp'.success)
    /\ projects' # projects
          => (resp'.op \in {"update_project", "delete_project"} /\ resp'.success)

\* C4 (amended): after any sequence of add/remove-collaborator operations, a
\* user who is neither an admin nor the owner and whose stored role is
\* 'viewer' can access but neither update nor delete the project, and one
\* whose stored role is 'collaborator' can update but not delete it; a delete
\* succeeds only for the owner or an admin, an update only for a caller with
\* edit permission, and a denied update or delete leaves the project and its
\* collaborators unchanged
C4_EditDeleteControl == []C4_Roles /\ [][C4_Step]_vars

\* the viewer 3 was refused an update by the service after the project had
\* been renamed by somebody with edit permission
C4_Witness ==
    /\ resp.op = "update_project" /\ resp.user = 3 /\ resp.resource = 1
    /\ resp.ran /\ ~resp.success
    /\ get_collaborator_role(1, 3) = "viewer"
    /\ projects[1].name = "q"

AdminGuardExpected(identity) ==
    IF identity = 0 THEN 401
    ELSE IF ~user_exists(identity) THEN 404
    ELSE IF ~users[identity].is_active THEN 403
    ELSE IF users[identity].role # "admin" THEN 403
    ELSE 200

\* C5: the admin-required guard answers 401 without identity, 404 for a
\* missing user record, 403 for an inactive user, 403 for a non-admin, and
\* runs the handler only when all four checks pass
C5_AdminGuard ==
    resp.op = "admin"
        => /\ resp.code = AdminGuardExpected(resp.user)
           /\ resp.ran <=> resp.code = 200

\* ------------------------------------------------------------ review claims
ReviewStatuses == {"approved", "rejected"}

\* the caller may edit the project that owns the snippet
MayReview(i, sid) ==
    /\ sid \in DOMAIN snippets
    /\ user_exists(i)
    /\ LET pid == snippets[sid].project_id IN
       \/ IsAdmin(i)
       \/ IsOwner(i, pid)
       \/ get_collaborator_role(pid, i) \in {"owner", "collaborator"}

Reviewed(row, st, i, at, n) ==
    [project_id |-> row.project_id, status |-> st,
     reviewed_by |-> i, reviewed_at |-> at, review_notes |-> n]

PendingRow(pid) ==
    [project_id |-> pid, status |-> "pending",
     reviewed_by |-> 0, reviewed_at |-> 0, review_notes |-> None]

C6_Statuses ==
    \A sid \in DOMAIN snippets :
        /\ snippets[sid].status \in {"pending"} \cup ReviewStatuses
        /\ snippets[sid].status = "pending" <=> snippets[sid].reviewed_by = 0
        /\ snippets[sid].status = "pending" => snippets[sid] = PendingRow(snippets[sid].project_id)
        /\ snippets[sid].status # "pending" => snippets[sid].reviewed_at > 0

C6_Step ==
    /\ (resp'.op = "review_snippet" /\ ~Tick /\ ~ExtractContent(1))
          => LET i == resp'.user
                 sid == resp'.resource
             IN IF ~MayReview(i, sid)
                THEN ~resp'.success /\ snippets' = snippets
                ELSE \A st \in StatusArgs, n \in NotesArgs :
                       UpdateSnippetStatus(i, sid, st, n, TRUE)
                          => IF st \in ReviewStatuses
                             THEN /\ resp'.success
                                  /\ snippets' = [snippets EXCEPT
                                        ![sid] = Reviewed(@, st, i, clock, n)]
                             ELSE /\ ~resp'.success
                                  /\ snippets' = snippets
    /\ snippets' # snippets
          => \/ \E pid \in DOMAIN projects :
                   snippets' = Append(snippets, PendingRow(pid))
             \/ /\ resp'.op = "review_snippet" /\ resp'.success
                /\ MayReview(resp'.user, resp'.resource)
                /\ snippets'[resp'.resource].status \in ReviewStatuses
                /\ \A o \in DOMAIN snippets \ {resp'.resource} :
                      snippets'[o] = snippets[o]

\* C6: a snippet enters the table with status 'pending' and no review stamp;
\* afterwards a row changes only in a review request whose status is approved
\* or rejected and whose caller may edit the owning project, and that request
\* sets status, reviewed_by, reviewed_at and review_notes whatever the row
\* held before; any other review request is refused and changes no snippet
C6_ReviewLifecycle == []C6_Statuses /\ [][C6_Step]_vars

\* snippet 1 was reviewed before the clock moved and is now reviewed again by
\* the collaborator 3 at time 2
C6_Witness ==
    /\ resp = Response("review_snippet", 3, 1, 200, TRUE, TRUE)
    /\ 1 \in DOMAIN snippets
    /\ snippets[1] = Reviewed(snippets[1], "rejected", 3, 2, "n")

\* ------------------------------------------------------------ export claims
C7_Rows ==
    \A e \in DOMAIN exports :
        LET r == exports[e] IN
        /\ r.status \in {"pending", "processing", "completed", "failed", "expired"}
        /\ r.status = "pending" => (r.progress = 0 /\ job.pc = "created" /\ job.export_id = e)
        /\ r.status = "processing"
              => (r.progress = 10 /\ job.pc = "processing" /\ job.export_id = e)
        /\ r.status = "completed"
              => (r.progress = 100 /\ r.file_path # None /\ r.completed_at > 0)
        /\ r.status = "failed" => r.error_message # None

C7_Step ==
    /\ \A e \in DOMAIN exports' :
          IF e \in DOMAIN exports
          THEN \/ exports'[e].status = exports[e].status
               \/ <<exports[e].status, exports'[e].status>> \in
                     { <<"pending", "processing">>, <<"processing", "completed">>,
                       <<"processing", "failed">>, <<"completed", "expired">> }
          ELSE exports'[e].status = "pending" /\ exports'[e].progress = 0
    /\ \A ok \in BOOLEAN, af \in BOOLEAN :
          ProcessFinish(ok, af)
             => /\ resp'.op = "create_export" /\ resp'.success
                /\ resp'.resource = job.export_id
                /\ exports'[job.export_id].status = IF ok THEN "completed" ELSE "failed"
                /\ ~ok => exports'[job.export_id].error_message # None

DownloadAllowed(i, e) ==
    /\ user_exists(i) /\ users[i].is_active
    /\ e \in DOMAIN exports
    /\ users[i].role = "admin" \/ exports[e].user_id = i
    /\ exports[e].status = "completed"
    /\ exports[e].file_path \in files
    /\ ~(exports[e].expires_at < clock)

C8_Step ==
    resp'.op = "download_export"
       => LET i == resp'.user
              e == resp'.resource
          IN \A af \in BOOLEAN :
                DownloadExport(i, e, af)
                   => /\ resp'.success <=> DownloadAllowed(i, e)
                      /\ resp'.success => resp'.code = 200
                      /\ audit' # audit => resp'.success
                      /\ (resp'.success /\ ~af)
                            => audit' = Append(audit,
                                  AuditRow(i, "download_export", "export", e))

\* C8: a download request is served exactly when the caller is an active user
\* who is the export's owner or an admin, the export is completed, its file is on disk and its
\* expiry is not in the past, so an expired export is refused even while its
\* file is still on disk; a refused request writes no audit row and a served
\* one writes the download_export row unless the audit write fails
C8_DownloadGating == [][C8_Step]_vars

\* the owner was refused export 1 after its expiry although cleanup has not
\* run and the file is still on disk
C8_Witness ==
    /\ resp = Response("download_export", 2, 1, 400, TRUE, FALSE)
    /\ 1 \in DOMAIN exports
    /\ exports[1].status = "completed"
    /\ exports[1].file_path \in files
    /\ exports[1].expires_at < clock

DueForCleanup(rows, e, now) ==
    rows[e].status = "completed" /\ rows[e].expires_at < now

C9_Step ==
    /\ \A stuck \in StuckSets :
          CleanupExpiredExports(stuck)
             => /\ \A e \in DOMAIN exports :
                      IF DueForCleanup(exports, e, clock)
                      THEN /\ exports'[e] = [exports[e] EXCEPT !.status = "expired",
                                                               !.file_path = None]
                           /\ exports[e].file_path \notin stuck
                                 => exports[e].file_path \notin files'
                      ELSE exports'[e] = exports[e]
                /\ \A e \in DOMAIN exports' : ~DueForCleanup(exports', e, clock')
    /\ \A e \in DOMAIN exports :
          exports[e].status = "expired"
             => (e \in DOMAIN exports' /\ exports'[e] = exports[e])

\* C9: cleanup_expired_exports turns every completed export whose expiry is
\* in the past into an expired one with file_path cleared, its file being
\* gone from disk unless os.remove failed, and leaves every other export as
\* it was; afterwards no export is due for cleanup, so a second run changes
\* nothing; and no step ever changes an expired export
C9_Cleanup == [][C9_Step]_vars

\* export 1 was swept after its expiry: its row is expired with no file
\* path, and its file was removed from disk
C9_Witness ==
    /\ 1 \in DOMAIN exports
    /\ exports[1].status = "expired" /\ exports[1].file_path = None
    /\ exports[1].progress = 100 /\ exports[1].expires_at < clock
    /\ FilePath(exports[1].filename) \notin files

\* ------------------------------------------------------------- audit claims
C10_Step ==
    /\ \A e \in LoginEmails :
          Login(e, TRUE, TRUE)
             => LET u == user_by_email(NormalizeEmail(e)) IN
                (u # 0 /\ users[u].is_active)
                   => /\ resp'.code = 200 /\ resp'.success /\ resp'.user = u
                      /\ resp'.tokens = TokensFor(u)
                      /\ users'[u].last_login = clock
    /\ \A i \in AuditedCallers :
          /\ UpdateProject(i, 1, "q", TRUE)
                => /\ resp' = Response("update_project", i, 1, 200, TRUE, TRUE)
                   /\ projects'[1].name = "q"
          /\ DeleteProject(i, 1, TRUE)
                => /\ resp' = Response("delete_project", i, 1, 200, TRUE, TRUE)
                   /\ 1 \notin DOMAIN projects'
          /\ \A ro \in Roles :
                AddCollaborator(i, 1, "e1", ro, TRUE)
                   => /\ resp' = Response("add_collaborator", i, 1, 200, TRUE, TRUE)
                      /\ collaborators' = Append(collaborators,
                            [project_id |-> 1, user_id |-> 1, role |-> ro])
          /\ RemoveCollaborator(i, 1, 3, TRUE)
                => /\ resp'.success
                   /\ ~HasCollaboratorRow(3, 1)'
          /\ \A st \in ReviewStatuses, n \in NotesArgs :
                UpdateSnippetStatus(i, 1, st, n, TRUE)
                   => /\ resp' = Response("review_snippet", i, 1, 200, TRUE, TRUE)
                      /\ snippets'[1] = Reviewed(snippets[1], st, i, clock, n)
          /\ ExecuteSql(i, "update", TRUE, FALSE, TRUE)
                => (IsAdmin(i)
                      => /\ resp' = Response("execute_sql", i, 0, 200, TRUE, TRUE)
                         /\ projects'[1].name = "s")
    /\ \A ok \in BOOLEAN :
          ProcessFinish(ok, TRUE)
             => /\ resp' = Response("create_export", job.user_id, job.export_id,
                                    201, TRUE, TRUE)
                /\ exports'[job.export_id].status = IF ok THEN "completed" ELSE "failed"
    /\ \A max_pages \in 0..MaxBudget :
          StartCrawl("r1", 1, max_pages, TRUE) => req'["r1"].pc = "loop"
    /\ CrawlFinish("r1", TRUE)
          => /\ req'["r1"].result.success
             /\ pages' = pages /\ websites' = websites
    /\ \/ audit' = audit
       \/ /\ Len(audit') = Len(audit) + 1
          /\ SubSeq(audit', 1, Len(audit)) = audit

\* C10: when the audit write of an audited operation fails (login, project
\* update and delete, collaborator add and remove, snippet review, SQL
\* execution, export creation, crawl start and end), the operation answers
\* with its normal success response and the write it committed before the
\* audit call is in the tables afterwards; the audit log itself only grows
C10_AuditBestEffort == [][C10_Step]_vars

\* the owner's update answered 200 and the new name is stored although the
\* audit row could not be written
C10_Witness ==
    /\ resp = Response("update_project", 2, 1, 200, TRUE, TRUE)
    /\ projects[1].name = "q"
    /\ audit = <<>>
\* ------------------------------------------------------------ login claims
\* the user row a typed e-mail address stands for, 0 when not registered
Registered(e) == user_by_email(NormalizeEmail(e))

\* what a caller sees of a login that failed on its credentials
InvalidCredential(r) ==
    /\ r.code = 401 /\ ~r.success /\ r.user = 0
    /\ r.message = "Invalid email or password"
    /\ r.tokens = NoTokens

\* a failed login issues no tokens and writes no row; a login succeeds only
\* for a registered, active user with the matching password, and then sets
\* last_login and returns both tokens bound to the user id; an inactive user
\* with the matching password gets the account-disabled result
C11_Undisputed ==
    \A e \in LoginEmails, pw \in BOOLEAN :
       Login(e, pw, TRUE)
          => LET u == Registered(e) IN
             /\ resp'.success <=> (u # 0 /\ users[u].is_active /\ pw)
             /\ ~resp'.success
                   => /\ resp'.tokens = NoTokens /\ resp'.code = 401
                      /\ users' = users
             /\ resp'.success
                   => /\ resp'.tokens = TokensFor(u) /\ resp'.user = u
                      /\ resp'.code = 200
                      /\ users' = [users EXCEPT ![u].last_login = clock]
             /\ (u = 0 \/ (users[u].is_active /\ ~pw)) => InvalidCredential(resp')
             /\ (u # 0 /\ ~users[u].is_active /\ pw)
                   => resp'.message = "Account is deactivated"

\* a login with a password that does not match is answered exactly as a
\* login with an e-mail address that is not registered
C11_Indistinguishable ==
    \A e \in LoginEmails :
       Login(e, FALSE, TRUE) => InvalidCredential(resp')

\* C11: authentication fails with the invalid-credential result when the
\* e-mail is not registered or the password does not match, the two cases
\* being indistinguishable to the caller, and with the account-disabled
\* result when the user is inactive; a failure issues no tokens and leaves
\* last_login unchanged, and only a success updates last_login and returns
\* an access and a refresh token bound to the user id
C11_AuthOutcomes == [][C11_Undisputed /\ C11_Indistinguishable]_vars

\* ---------------------------------------------------------- account claims
\* some other user's row holds the normalized form of the typed address
TakenByOther(e, uid) ==
    \E u \in DOMAIN users :
       u # uid /\ NormalizeEmail(users[u].email) = NormalizeEmail(e)

C12_Unique ==
    \A u, v \in DOMAIN users :
       u # v => NormalizeEmail(users[u].email) # NormalizeEmail(users[v].email)

C12_Step ==
    /\ \A e \in RegisterEmails :
          Register(e, TRUE)
             => IF TakenByOther(e, 0)
                THEN /\ users' = users
                     /\ ~resp'.success /\ resp'.code = 400
                ELSE /\ resp'.success
                     /\ DOMAIN users' = DOMAIN users \cup {resp'.user}
                     /\ resp'.user \notin DOMAIN users
                     /\ users'[resp'.user].email = NormalizeEmail(e)
                     /\ \A u \in DOMAIN users : users'[u] = users[u]
    /\ \A i \in ProfileCallers, fn \in FirstNameArgs, e \in ProfileEmails :
          UpdateProfile(i, fn, e, TRUE)
             => IF e # None /\ TakenByOther(e, i)
                THEN /\ users' = users
                     /\ ~resp'.success /\ resp'.code = 400
                ELSE user_exists(i)
                        => /\ resp'.success
                           /\ e # None => users'[i].email = NormalizeEmail(e)
                           /\ \A u \in DOMAIN users : u # i => users'[u] = users[u]

\* C12: after any sequence of registrations and profile updates no two
\* User rows have the same normalized e-mail address; a registration with
\* an address already registered and a profile update to an address of
\* another user are rejected and leave every user row as it was
C12_EmailUnique == []C12_Unique /\ [][C12_Step]_vars

\* user 5 registered as " E5", is stored as e5, and was then refused the
\* address of user 2, both rows being as they were before the refusal
C12_Witness ==
    /\ 5 \in DOMAIN users /\ users[5].email = "e5"
    /\ users[5].first_name = "a"
    /\ resp.op = "update_profile" /\ resp.user = 5
    /\ resp.message = "Email already in use"
    /\ users[2].email = "e2"

\* ------------------------------------------------------------ stop claims
C13_Step ==
    \A wid \in RequestedWebsiteIds :
       StopScraping(CallerId, wid)
          => IF wid \in DOMAIN websites
             THEN /\ websites'[wid].status = "paused"
                  /\ Len(audit') = Len(audit) + 1
                  /\ audit'[Len(audit')] = AuditRow(CallerId, "stop_crawl", "website", wid)
             ELSE /\ resp'.code = 404
                  /\ websites' = websites /\ audit' = audit

\* C13: a stop request for an existing website ends with the website's
\* status 'paused' and a stop_crawl audit row recorded; for a missing
\* website it answers not-found and changes nothing
C13_StopCrawl == [][C13_Step]_vars

\* ------------------------------------------------------- admin SQL claims
\* the request was refused for want of confirmation, the tables untouched
RefusedUnconfirmed ==
    /\ resp'.message = "requires_confirmation" /\ resp'.code = 400
    /\ projects' = projects /\ audit' = audit

\* the gate on the statements it looks at: a mutation that does not start
\* with select or with runs only when confirmed, a query runs unconfirmed
C14_Undisputed ==
    \A i \in SqlCallers, q \in SqlArgs \ {"with_delete"}, c \in BOOLEAN,
       sf \in BOOLEAN, af \in BOOLEAN :
       (IsAdmin(i) /\ ExecuteSql(i, q, c, sf, af))
          => IF HasDangerousKeyword(q) /\ ~c THEN RefusedUnconfirmed
             ELSE resp'.message # "requires_confirmation"

C14_Step ==
    \A i \in SqlCallers, q \in SqlArgs, c \in BOOLEAN, sf \in BOOLEAN, af \in BOOLEAN :
       (IsAdmin(i) /\ ExecuteSql(i, q, c, sf, af))
          => IF HasDangerousKeyword(q) /\ ~c THEN RefusedUnconfirmed
             ELSE resp'.message # "requires_confirmation"

\* C14: a statement that contains drop, delete, truncate, alter, create,
\* insert or update is executed and committed only when the request carries
\* confirm_dangerous; without it the request is refused with
\* requires_confirmation and the tables are left as they were; read queries
\* run without confirmation
C14_ConfirmationGate == [][C14_Step]_vars

\* an administrator's statement was run (not refused for want of
\* confirmation), the audit store being available
Executed(i, q, c, sf) ==
    /\ IsAdmin(i) /\ ExecuteSql(i, q, c, sf, FALSE)
    /\ resp'.message # "requires_confirmation"

\* one more execute_sql row, with the statement's type and length
OneSqlRecord(i, q) ==
    audit' = Append(audit, [AuditRow(i, "execute_sql", None, 0)
                               EXCEPT !.details = SqlDetails(q)])

\* no audit row has a field for the query text
C15_NoText ==
    \A n \in DOMAIN audit : DOMAIN audit[n].details = {"query_type", "query_length"}

\* the executions that succeed are audited once, with type and length
C15_Undisputed ==
    \A i \in SqlCallers, q \in SqlArgs, c \in BOOLEAN :
       Executed(i, q, c, FALSE) => OneSqlRecord(i, q)

C15_Step ==
    \A i \in SqlCallers, q \in SqlArgs, c \in BOOLEAN, sf \in BOOLEAN :
       Executed(i, q, c, sf) => OneSqlRecord(i, q)

\* C15: every execution of administrator SQL, whether it succeeds or
\* fails, produces exactly one execute_sql audit record carrying the query
\* type and the query length, and no audit record contains the query text
C15_SqlAudited == []C15_NoText /\ [][C15_Step]_vars

\* ----------------------------------------------------------- search claims
\* the place of a tier in the chain: the variants in order, for each the
\* providers before the scraper, then the local files, then the fallback
TierRank(e) ==
    CASE e.tier = "providers" -> 2 * e.variant
      [] e.tier = "scraping" -> 2 * e.variant + 1
      [] e.tier = "local" -> 2 * QueryVariants + 2
      [] e.tier = "fallback" -> 2 * QueryVariants + 3

Tried(tier) == { n \in DOMAIN search.trace : search.trace[n].tier = tier }
WebYield ==
    { n \in Tried("providers") \cup Tried("scraping") : search.trace[n].n > 0 }

\* C16: the tiers of a search are tried in order: the provider APIs, the
\* direct scraping only for a variant whose providers yielded nothing, the
\* local files only if the whole web tier yielded nothing, the synthesized
\* single result only if the local files yielded nothing either; at most
\* three query variants are tried; and what is returned is never empty and
\* never longer than max_results
C16_FallbackChain ==
    search.called
       => /\ search.returned # <<>>
          /\ Len(search.returned) <= search.max_results
          /\ \A a, b \in DOMAIN search.trace :
                a < b => TierRank(search.trace[a]) < TierRank(search.trace[b])
          /\ Cardinality({ search.trace[n].variant : n \in Tried("providers") })
                <= VariantLimit
          /\ \A n \in Tried("scraping") :
                \E k \in Tried("providers") :
                   /\ search.trace[k].variant = search.trace[n].variant
                   /\ search.trace[k].n = 0
          /\ Tried("local") # {} <=> WebYield = {}
          /\ Tried("fallback") # {}
                <=> (Tried("local") # {} /\ \A n \in Tried("local") : search.trace[n].n = 0)
          /\ Tried("fallback") # {}
                => /\ Len(search.returned) = 1
                   /\ search.returned[1].source = "fallback"

\* a search went through the whole chain: three variants whose providers
\* and scraping found nothing, no local file, and the synthesized result
\* is what came back
C16_Witness ==
    /\ search.called
    /\ Cardinality(Tried("providers")) = VariantLimit
    /\ Cardinality(Tried("scraping")) = VariantLimit
    /\ Tried("local") # {} /\ Tried("fallback") # {}
    /\ search.returned = enhance_search_results(create_fallback_results)

\* ------------------------------------------------------- index claims
IndexRowsOf(id) == { n \in DOMAIN fts.index : fts.index[n].page_id = id }

\* C17: once the schema is provisioned, after any page inserts, updates and
\* deletes the page ids in pages_fts are the ids of the existing Page rows,
\* with exactly one index row per page holding its current title, extracted
\* text and url
C17_FtsSync ==
    fts.provisioned
       => /\ { fts.index[n].page_id : n \in DOMAIN fts.index } = DOMAIN fts.rows
          /\ \A id \in DOMAIN fts.rows :
                /\ Cardinality(IndexRowsOf(id)) = 1
                /\ \A n \in IndexRowsOf(id) : fts.index[n] = IndexRow(id, fts.rows[id])

\* ------------------------------------------------- collaborator claims
CollaboratorRows(uid, pid) ==
    { n \in DOMAIN collaborators :
         collaborators[n].project_id = pid /\ collaborators[n].user_id = uid }

\* the caller may edit the project: an admin, the owner, or a collaborator
\* whose stored role is owner or collaborator
MayEdit(uid, pid) ==
    /\ pid \in DOMAIN projects /\ user_exists(uid)
    /\ \/ IsAdmin(uid)
       \/ IsOwner(uid, pid)
       \/ \E n \in CollaboratorRows(uid, pid) :
             collaborators[n].role \in {"owner", "collaborator"}

C18_AtMostOne ==
    \A u \in DOMAIN users, p \in ProjectIds : Cardinality(CollaboratorRows(u, p)) <= 1

C18_Step ==
    resp'.op = "add_collaborator"
       => \A e \in EmailArgs, ro \in Roles :
             AddCollaborator(resp'.user, resp'.resource, e, ro, TRUE)
                => IF \/ Registered(e) = 0
                      \/ HasCollaboratorRow(Registered(e), resp'.resource)
                      \/ ~MayEdit(resp'.user, resp'.resource)
                   THEN collaborators' = collaborators /\ ~resp'.success
                   ELSE collaborators' =
                           Append(collaborators,
                                  [project_id |-> resp'.resource,
                                   user_id |-> Registered(e), role |-> ro])

Bonus(cond, amount) == IF cond THEN amount ELSE 0
StatedScore(c, r) ==
    500 + (IF c.length >= 10 /\ c.length <= 500 THEN 200
           ELSE Bonus(c.length > 500, 100))
        + Bonus(r.required /\ c.length # 0, 200)
        + Bonus(c.length # 0 /\ ~c.isspace, 100)
        + Bonus(r.rule_type = "css" /\ r.selector \in {"h1", "h2", "h3", "title"}, 100)

C20_Sorted ==
    \A a, b \in DOMAIN req["r1"].queue :
       a < b => req["r1"].queue[a].depth <= req["r1"].queue[b].depth

\* an entry leaves the queue only at its head; a URL handed to
\* scrape_single_page was not visited before, is no shallower than the URL
\* scraped last, and is taken at the depth of its earliest queue entry; the
\* visited set of a crawl only grows
C20_Step ==
    LET q == req["r1"]
        n == req'["r1"]
    IN /\ (q.pc = "loop" /\ Len(n.queue) < Len(q.queue))
             => /\ n.queue = Tail(q.queue)
                /\ n.pc = "fetch"
                      => /\ n.url = Head(q.queue).url /\ n.depth = Head(q.queue).depth
                         /\ n.url \notin q.crawled_urls
                         /\ n.crawled_urls = q.crawled_urls \cup {n.url}
                         /\ n.depth >= q.depth
                         /\ \A k \in DOMAIN n.queue :
                               n.queue[k].url = n.url => n.queue[k].depth >= n.depth
       /\ (n.pc = "fetch" /\ q.pc # "fetch") => (q.pc = "loop" /\ Len(n.queue) < Len(q.queue))
       /\ q.pc # "idle" => q.crawled_urls \subseteq n.crawled_urls

\* C20: within one crawl the pages are visited in first-discovered,
\* breadth-first order (no URL of depth d is scraped after one of depth d+1,
\* and the queue is read first in, first out), and every URL is scraped at
\* most once even if several pages link to it
C20_CrawlOrder == []C20_Sorted /\ [][C20_Step]_vars

\* u2 was linked from the seed and again from u1: it was scraped from its
\* depth-1 entry, and its depth-2 entry now heads the queue, to be skipped
C20_Witness ==
    /\ req["r1"].pc = "loop"
    /\ req["r1"].crawled_urls = {"u0", "u1", "u2"}
    /\ req["r1"].queue # <<>>
    /\ Head(req["r1"].queue) = [url |-> "u2", depth |-> 2]
    /\ req["r1"].depth = 1

\* ------------------------------------------------- crawl failure claims
\* the statistics of a crawl account for every visited URL: each is counted
\* as crawled or failed once its scrape has returned, and every failure has
\* its entry in the error list
C21_Accounted ==
    \A r \in Requests :
        LET q == req[r]
            inScrape == IF q.pc \in {"fetch", "insert", "stats", "scraped"} THEN 1 ELSE 0
        IN (q.kind = "crawl" /\ q.pc # "idle") =>
            /\ q.stats.pages_crawled + q.stats.pages_failed + inScrape
                  = Cardinality(q.crawled_urls)
            /\ Len(q.stats.errors) = q.stats.pages_failed
            /\ \A i \in 1..Len(q.stats.errors) : q.stats.errors[i].url \in q.crawled_urls

\* a failed scrape sends the crawl back to its loop with the failure counted
\* and recorded and the queue untouched; the crawl ends only when its queue
\* is empty or its budget exhausted, and then reports success
C21_Step ==
    \A r \in Requests :
        LET q == req[r]
            n == req'[r]
        IN /\ (q.pc = "scraped" /\ ~q.result.success) =>
                /\ n.pc = "loop"
                /\ n.queue = q.queue
                /\ n.stats.pages_crawled = q.stats.pages_crawled
                /\ n.stats.pages_failed = q.stats.pages_failed + 1
                /\ n.stats.errors =
                      Append(q.stats.errors, [url |-> q.url, error |-> q.result.message])
           /\ (q.kind = "crawl" /\ q.pc \in {"fetch", "insert", "stats"} /\ n.pc # q.pc) =>
                n.pc \in {"insert", "stats", "scraped"}
           /\ (q.pc = "loop" /\ n.pc = "done") =>
                /\ ~LoopContinues(q)
                /\ n.result.success
                /\ n.stats = q.stats

\* C21: a page whose scrape fails during a crawl does not abort the crawl:
\* the failure is counted in pages_failed, its URL and error are appended to
\* the error list and the crawl goes on with the next queued URL; at
\* completion pages_crawled + pages_failed is the number of visited URLs and
\* the error list has pages_failed entries
C21_FailureIsolation == []C21_Accounted /\ [][C21_Step]_vars

\* a finished crawl whose second page failed and whose third was scraped
C21_Witness ==
    LET q == req["r1"]
    IN /\ q.pc = "done"
       /\ q.result.success
       /\ q.stats.pages_crawled = 2
       /\ q.stats.errors = <<[url |-> "u1", error |-> "fetch_error"]>>
       /\ q.crawled_urls = {"u0", "u1", "u2"}
       /\ q.url = "u2"

\* ------------------------------------------------- crawl budget claims
\* a crawl with a budget never reports more pages than its budget, and is
\* inside scrape_single_page only while it has reported fewer
C22_WithinBudget ==
    \A r \in Requests :
        LET q == req[r]
        IN (q.kind = "crawl" /\ q.max_pages > 0) =>
            /\ q.stats.pages_crawled <= q.max_pages
            /\ q.pc \in {"fetch", "insert", "stats", "scraped"}
                  => q.stats.pages_crawled < q.max_pages

\* the loop hands a URL to scrape_single_page only within the budget; with
\* the budget used up its only step is to finish, whatever is still queued;
\* without a budget it finishes only on an empty queue
C22_Step ==
    \A r \in Requests :
        LET q == req[r]
            n == req'[r]
            spent == q.max_pages > 0 /\ q.stats.pages_crawled >= q.max_pages
        IN /\ (q.pc = "loop" /\ n.pc = "fetch") => ~spent
           /\ (q.pc = "loop" /\ spent /\ n # q) => (n.pc = "done" /\ n.stats = q.stats)
           /\ (q.pc = "loop" /\ n.pc = "done") => (spent \/ q.queue = <<>>)
           /\ (q.pc = "loop" /\ n.pc = "done" /\ q.max_pages = 0) => q.queue = <<>>

\* C22: a crawl given a page budget max_pages stops as soon as the budget is
\* used up: pages_crawled never exceeds max_pages and no page is fetched once
\* pages_crawled has reached max_pages; a crawl without a budget runs until
\* its queue is empty
C22_PageBudget == []C22_WithinBudget /\ [][C22_Step]_vars

\* a crawl with a budget of one page ended after its first page although the
\* links of that page were queued
C22_Witness ==
    LET q == req["r1"]
    IN /\ q.pc = "done"
       /\ q.result.success
       /\ q.max_pages = 1
       /\ q.stats.pages_crawled = 1
       /\ q.queue # <<>>
       /\ Len(pages) = 1

\* ------------------------------------------------- fetch failure claims
\* a scrape that ends on a failed fetch, and one that ends with a new page
C23_Step ==
    \A r \in Requests :
        LET q == req[r]
            n == req'[r]
        IN /\ (q.pc = "fetch" /\ n.pc # "fetch" /\ n.result.message = "fetch_error") =>
                /\ ~n.result.success
                /\ n.result.page = 0
                /\ pages' = pages
                /\ websites'[q.website_id].last_error = "fetch_error"
           /\ (q.pc = "stats" /\ n.result.success) =>
                /\ websites'[q.website_id].last_error = None
                /\ websites'[q.website_id].last_crawled
                /\ websites'[q.website_id].total_pages = page_count(pages', q.website_id)

\* C23: a scrape whose fetch fails returns a failure result carrying the
\* error, creates no Page row and records the error in the website's
\* last_error; a later scrape that creates a page clears last_error and
\* updates total_pages and last_crawled
C23_FetchFailureRecorded == [][C23_Step]_vars

\* ------------------------------------------------------- pause claims
\* the crawl of a paused website is never stuck: whatever its position, it
\* has a next step
C24_NotBlocked ==
    LET q == req["r1"]
    IN (q.kind = "crawl" /\ q.pc \notin {"idle", "done"}
          /\ websites[q.website_id].status = "paused")
       => ENABLED StepCrawl("r1")

\* pausing changes nothing of the crawl under way; the crawl of a paused
\* website takes the next queued URL as long as there is one within the
\* budget, creates pages, and ends only on an empty queue or a spent budget,
\* with its statistics
C24_Step ==
    LET q == req["r1"]
        n == req'["r1"]
        paused == websites[1].status = "paused"
        more == q.queue # <<>> /\ (q.max_pages = 0 \/ q.stats.pages_crawled < q.max_pages)
    IN /\ (~paused /\ websites'[1].status = "paused") =>
            (req' = req /\ pages' = pages)
       /\ paused => websites'[1].status = "paused"
       /\ (paused /\ q.pc = "loop" /\ more /\ n # q) =>
            (n.queue = Tail(q.queue) /\ n.pc \in {"loop", "fetch"})
       /\ (paused /\ q.pc = "loop" /\ n.pc = "done") =>
            (~more /\ n.result.success /\ n.stats = q.stats)
       /\ (paused /\ q.pc = "insert" /\ n.pc = "stats") => Len(pages') = Len(pages) + 1

\* C24: pausing a website while a crawl of it is in progress does not
\* interrupt the crawl: it keeps fetching queued URLs and creating pages
\* until its queue is empty or its budget exhausted, and then returns its
\* aggregate statistics
C24_PauseDoesNotCancel == []C24_NotBlocked /\ [][C24_Step]_vars

\* the pause was recorded between the start and the completion of a crawl
\* that scraped all three pages of the website
C24_Witness ==
    LET q == req["r1"]
    IN /\ websites[1].status = "paused"
       /\ Len(audit) = 3
       /\ audit[1].action = "start_crawl"
       /\ audit[2].action = "stop_crawl"
       /\ audit[3].action = "complete_crawl"
       /\ q.pc = "done"
       /\ q.result.success
       /\ q.stats.pages_crawled = 3
       /\ Len(pages) = 3

\* ------------------------------------------------------ browser claims
\* the threads that are between taking the lock and leaving the with block
InBrowser == { t \in Threads : browser.pc[t] \in {"init", "navigate", "read"} }

\* at most one thread uses the browser, and it is the holder of the lock; the
\* lock is held by nobody else; at most one session was ever created, and
\* the driver is that session
C25_Exclusive ==
    /\ Cardinality(InBrowser) <= 1
    /\ \A t \in Threads :
          /\ t \in InBrowser <=> browser.lock = t
          /\ browser.pc[t] \in {"navigate", "read"} => browser.driver # 0
    /\ browser.created <= 1
    /\ browser.driver = browser.created
    /\ (browser.lock = None /\ \E t \in Threads : browser.pc[t] = "acquire")
          => \E t \in Threads : ENABLED SeleniumAcquire(t)
    /\ browser.lock # None => ENABLED SeleniumStep(browser.lock)

\* a session is created only by the holder of the lock when there is none,
\* and a session in place is kept; a fetch that ends, with or without
\* success, leaves the lock free
C25_Step ==
    /\ browser.driver # 0 => browser'.driver = browser.driver
    /\ browser'.created # browser.created =>
          /\ browser.driver = 0
          /\ browser.lock # None
          /\ browser.pc[browser.lock] = "init"
    /\ \A t \in Threads :
          (browser.pc[t] # "done" /\ browser'.pc[t] = "done") =>
              (browser.lock = t /\ browser'.lock = None)

C26_PersistedTogether ==
    \A i \in 1..Len(pages) :
        LET wid == pages[i].website_id
        IN /\ wid \in DOMAIN websites
           /\ websites[wid].total_pages = page_count(pages, wid)

\* the same, looked at only when no scrape is under way
C26_AtRest ==
    (\A r \in Requests : req[r].pc \in {"idle", "done"}) => C26_PersistedTogether

\* ------------------------------------------------- termination claims
\* an iteration of the loop removes exactly one entry of the queue, and
\* entries are added only for the links of the page just scraped, a URL that
\* was not visited before this iteration and is never scraped again
C27_Step ==
    LET q == req["r1"]
        n == req'["r1"]
    IN /\ (q.pc = "loop" /\ n.pc # "done" /\ n # q) => Len(n.queue) = Len(q.queue) - 1
       /\ Len(n.queue) > Len(q.queue) =>
            /\ q.pc \in {"idle", "scraped"}
            /\ q.pc = "scraped" => (q.url \in q.crawled_urls /\ n.pc = "loop")
       /\ (q.pc = "loop" /\ n.pc = "fetch") =>
            (n.url \notin q.crawled_urls /\ n.url \in n.crawled_urls)
       /\ q.pc = "done" => n = q

\* C27: a crawl of a website with finitely many reachable links, whose
\* fetches all return, eventually terminates and returns its statistics:
\* every iteration removes one queue entry and each URL adds its links to
\* the queue at most once
C27_Terminates ==
    /\ [][C27_Step]_vars
    /\ (req["r1"].kind = "crawl" ~> req["r1"].pc = "done")

\* a crawl without budget that visited the whole link graph, two levels
\* deep, one page failing, and returned
C27_Witness ==
    LET q == req["r1"]
    IN /\ q.pc = "done"
       /\ q.result.message = "Crawl completed"
       /\ q.max_pages = 0
       /\ q.queue = <<>>
       /\ q.crawled_urls = PageUrls
       /\ q.depth = 2
       /\ q.stats.pages_failed = 1

\* ------------------------------------------------- page uniqueness claims
\* C28 as stated: in every reachable state, concurrent requests for the same
\* website included, there is at most one Page row per
\* (website_id, url, hash_content)
C28_OneRowPerKey ==
    \A i \in 1..Len(pages) :
        Cardinality(RowsWith(pages, pages[i].website_id, pages[i].url,
                             pages[i].hash_content)) <= 1

\* the rows of one key number at most the requests served concurrently
C28_OneRowPerRequest ==
    \A i \in 1..Len(pages) :
        Cardinality(RowsWith(pages, pages[i].website_id, pages[i].url,
                             pages[i].hash_content)) <= Cardinality(Requests)

\* a request whose duplicate check runs when a row of its key is stored
\* returns that row and adds none; a row is added only by a request that
\* passed its check, and a second row of a key only while another request
\* had passed its check before the first row was committed
C28_Step ==
    /\ \A r \in Requests :
          LET q == req[r]
              n == req'[r]
          IN (q.pc = "fetch" /\ n.pc # "fetch" /\ n.html # None
                /\ RowsWith(pages, q.website_id, q.url, sha256(n.html)) # {})
             => /\ n.pc # "insert"
                /\ n.result.message = "Page content unchanged"
                /\ pages' = pages
    /\ pages' # pages =>
          \E r \in Requests :
             /\ req[r].pc = "insert"
             /\ req'[r].pc # "insert"
             /\ pages' = Append(pages, pages'[Len(pages')])
             /\ pages'[Len(pages')].url = req[r].url
             /\ pages'[Len(pages')].hash_content = sha256(req[r].html)

\* C28 amended: a request that checks for a stored row after that row was
\* committed adds no row, so requests served one after the other keep one
\* row per (website_id, url, hash_content); requests that overlap between
\* check and commit each add a row, at most one per concurrent request
C28_UniqueUnlessOverlapping == []C28_OneRowPerRequest /\ [][C28_Step]_vars

\* two requests for the same URL fetched the same document, both passed the
\* duplicate check before either committed, and both rows are stored
C28_Witness ==
    /\ Len(pages) = 2
    /\ pages[1].url = pages[2].url
    /\ pages[1].website_id = pages[2].website_id
    /\ pages[1].hash_content = pages[2].hash_content
    /\ req["r1"].result.message = "Page scraped successfully"
    /\ req["r2"].result.message = "Page scraped successfully"
    /\ req["r1"].page_id # req["r2"].page_id

\* ------------------------------------------------------ privilege claims
\* role, is_active and password hash of the seeded users are as seeded, and
\* every other user has the role 'user': the seeded admin is the only admin
C29_NoNewAdmin ==
    \A u \in DOMAIN users :
        IF u \in DOMAIN UserRows
        THEN /\ users[u].role = UserRows[u].role
             /\ users[u].is_active = UserRows[u].is_active
             /\ users[u].password_hash = UserRows[u].password_hash
        ELSE users[u].role = "user"

\* what a request may change of the user rows: a profile update only
\* first_name and email of the caller's own row; a registration adds one
\* row of role 'user'; a login only last_login
C29_Step ==
    users' # users =>
       /\ resp'.op \in {"update_profile", "register", "login"}
       /\ resp'.op = "update_profile" =>
             /\ DOMAIN users' = DOMAIN users
             /\ \A u \in DOMAIN users :
                   IF u = resp'.user
                   THEN users'[u] = [users[u] EXCEPT !.first_name = users'[u].first_name,
                                                     !.email = users'[u].email]
                   ELSE users'[u] = users[u]
       /\ resp'.op = "register" =>
             /\ DOMAIN users' = DOMAIN users \cup {resp'.user}
             /\ \A u \in DOMAIN users : users'[u] = users[u]
             /\ users'[resp'.user].role = "user"
       /\ resp'.op = "login" =>
             /\ DOMAIN users' = DOMAIN users
             /\ \A u \in DOMAIN users :
                   users'[u] = [users[u] EXCEPT !.last_login = users'[u].last_login]

\* C29: whatever the request body, a profile update changes at most
\* first_name, last_name, email and updated_at of the caller's own row and
\* never role, is_active or password hash of anybody; registration creates
\* role 'user'; so no sequence of registrations, logins and profile updates
\* yields a new admin
C29_NoEscalation == []C29_NoNewAdmin /\ [][C29_Step]_vars

\* user 2 sent role, is_active and password_hash along with a new
\* first_name: the update succeeded, the name changed and nothing else
C29_Witness ==
    /\ resp.op = "update_profile"
    /\ resp.success
    /\ resp.user = 2
    /\ Len(audit) = 1
    /\ audit[1].action = "update_profile"
    /\ audit[1].details.updated_fields
          = {"first_name", "role", "is_active", "password_hash"}
    /\ users[2] = [UserRows[2] EXCEPT !.first_name = "b"]

\* ------------------------------------------------------ extraction claims
\* a snippet's rule is of the project of the snippet's page and is active
Scoped(row) ==
    /\ row.extraction_rule_id \in DOMAIN extraction.rules
    /\ row.page_id \in DOMAIN extraction.page_project
    /\ extraction.rules[row.extraction_rule_id].project_id
          = extraction.page_project[row.page_id]
    /\ extraction.rules[row.extraction_rule_id].is_active

\* a call only appends pending snippets, and persists nothing when it
\* answers that no rule was found
C30_Step ==
    /\ Len(extraction'.snippets) >= Len(extraction.snippets)
    /\ SubSeq(extraction'.snippets, 1, Len(extraction.snippets)) = extraction.snippets
    /\ \A i \in (Len(extraction.snippets) + 1)..Len(extraction'.snippets) :
          extraction'.snippets[i].status = "pending"
    /\ (extraction'.calls # extraction.calls /\ ~extraction'.result.success)
          => extraction'.snippets = extraction.snippets

\* C30: after any sequence of extraction calls, with or without a named
\* rule, the rule of every persisted snippet belongs to the project of the
\* snippet's page and was active when applied; a call only appends pending
\* snippets and changes or deletes none, and when no rule applies it fails
\* with no-rules-found and persists nothing
C30_RuleScoping ==
    /\ [](\A i \in 1..Len(extraction.snippets) : Scoped(extraction.snippets[i]))
    /\ [][C30_Step]_vars

====
